---- MODULE Spec2Model ----
(***************************************************************************)
(* ProDevTools. Three specifications share the variables of this module:   *)
(* Spec (the mind-map page), PomodoroSpec (the Pomodoro timer) and         *)
(* ToolsSpec (the router and the pages that keep a record in localStorage, *)
(* with the JSON viewer and the regex tester).                             *)
(*                                                                         *)
(* Mind map: the React state of the component (rootNode, editingNodeId,    *)
(* editNodeContent), the localStorage record "mindMap", the clock read by  *)
(* Date.now() and the size of the canvas element, which does not change    *)
(* in a run. Toasts and the downloaded file are outputs; color, zoom,      *)
(* offset and the panning state are read by the rendering alone, and no    *)
(* operation modelled here reads them.                                     *)
(*                                                                         *)
(* A node is a record                                                      *)
(*   [ref, id, content, children, xy]                                      *)
(* ref is the identity of the JavaScript object (two occurrences with the  *)
(* same ref are one object), id/content/children are the fields of         *)
(* MindMapNode, and xy stands for the pair of fields x and y, which the    *)
(* code always assigns together.                                           *)
(***************************************************************************)
EXTENDS Integers, Sequences, FiniteSets, TLC

VARIABLES rootNode, editingNodeId, editNodeContent, storage, now, canvas,
          mounted

\* The page shown by the router, the React state of the component of that
\* page, the records of localStorage other than "mindMap", and the toast on
\* screen (pages other than the mind map and the Pomodoro timer).
VARIABLES page, model, localStorage, lastToast

\* The React state of PomodoroPage, the closure held by the interval of the
\* countdown effect, and the closure behind the Switch button of the toast.
VARIABLES timeLeft, timerState, workDuration, breakDuration, isBreak,
          interval, notification

mindMapState == <<rootNode, editingNodeId, editNodeContent, storage, now,
                  canvas, mounted>>
toolsState == <<page, model, localStorage, lastToast>>
pomodoroState == <<timeLeft, timerState, workDuration, breakDuration, isBreak,
                   interval, notification>>

vars == <<mindMapState, toolsState, pomodoroState>>

\* ------------------------------------------------------------------ bounds

\* addChildNode is not taken once the tree holds this many node occurrences
MaxNodes == 4
\* Date.now() takes the values 1..MaxClock
MaxClock == 2

\* ------------------------------------------------------------ identifiers

\* the identifier "root"
RootId == [tag |-> "root", ts |-> 0]
\* the template string `node-${Date.now()}`
NodeId(t) == [tag |-> "node-", ts |-> t]
\* editingNodeId === null
NullId == [tag |-> "null", ts |-> 0]
\* an identifier no node ever carries (a caller passing a stale identifier)
AbsentId == [tag |-> "node-", ts |-> 0]

\* texts the user types into the edit input
Typed == {"x"}

\* (clientWidth, clientHeight) of the canvas element
Sizes == {<<800, 600>>, <<400, 600>>}

\* ------------------------------------------------------------- arithmetic

RECURSIVE GCD(_, _)
GCD(a, b) == IF b = 0 THEN a ELSE GCD(b, a % b)

\* a fraction <<n, d>> in lowest terms
Frac(n, d) == LET g == GCD(n, d) IN IF g = 0 THEN <<0, 1>> ELSE <<n \div g, d \div g>>
FracAdd(p, q) == Frac(p[1] * q[2] + q[1] * p[2], p[2] * q[2])
FracMul(p, q) == Frac(p[1] * q[1], p[2] * q[2])

\* ------------------------------------------------------------- positions

\* x and y undefined
NoXY == [def |-> FALSE, w |-> 0, h |-> 0, offs |-> <<>>]
\* x = w/2 + sum of dist*cos(2*pi*turn), y = h/2 + sum of dist*sin(2*pi*turn),
\* the sums over offs in order
XY(w, h, offs) == [def |-> TRUE, w |-> w, h |-> h, offs |-> offs]
\* node.x || 0, node.y || 0
OrZero(xy) == IF xy.def THEN xy ELSE XY(0, 0, <<>>)

\* ------------------------------------------------------------------ trees

\* object identities: one kept from the tree before the operation, one made
\* by a spread copy at a path of the tree, and the newNode of addChildNode
Kept(k) == <<0, k>>
Copy(path) == <<1>> \o path
NewRef == <<2>>

Node(ref, id, content, children, xy) ==
    [ref |-> ref, id |-> id, content |-> content, children |-> children, xy |-> xy]

\* a default tree whose root got a generated identifier
DefaultRootGenerated == Node(Kept(1), NodeId(0), "Central Idea", <<>>, XY(0, 0, <<>>))

DefaultRoot == Node(Kept(1), RootId, "Central Idea", <<>>, XY(0, 0, <<>>))

RECURSIVE Concat(_)
Concat(ss) == IF ss = <<>> THEN <<>> ELSE Head(ss) \o Concat(Tail(ss))

RECURSIVE SelectSeqOf(_, _)
SelectSeqOf(s, keep) ==
    IF s = <<>> THEN <<>>
    ELSE IF Head(s) \in keep THEN <<Head(s)>> \o SelectSeqOf(Tail(s), keep)
    ELSE SelectSeqOf(Tail(s), keep)

\* the nodes of a tree in depth-first pre-order, one entry per occurrence
RECURSIVE Nodes(_)
Nodes(n) == <<n>> \o Concat([i \in 1..Len(n.children) |-> Nodes(n.children[i])])

Count(n) == Len(Nodes(n))
Range(s) == {s[i] : i \in 1..Len(s)}
Ids(n) == {m.id : m \in Range(Nodes(n))}
Refs(n) == {m.ref : m \in Range(Nodes(n))}

\* the index of the first occurrence of ref r in the sequence of refs rs
FirstAt(rs, r) == CHOOSE i \in 1..Len(rs) :
    /\ rs[i] = r
    /\ \A j \in 1..(i - 1) : rs[j] # r

\* object identities renamed to Kept(i) by first occurrence in depth-first
\* pre-order: the objects of the tree before the operation that the new tree
\* does not hold are garbage, and which address an object has is not observable
RECURSIVE Rename(_, _)
Rename(n, rs) ==
    [n EXCEPT !.ref = Kept(FirstAt(rs, n.ref)),
              !.children = [i \in 1..Len(@) |-> Rename(@[i], rs)]]

RefSeq(n) == LET ns == Nodes(n) IN [i \in 1..Len(ns) |-> ns[i].ref]

Canon(n) == LET rs == RefSeq(n) IN Rename(n, rs)

\* --------------------------------------------------------- radial layout

\* the first distance handed to layoutChildren
BaseDistance == 200
\* distance * 0.8
Decay == <<4, 5>>

\* a layoutChildren that leaves a child that has a position where it is
RECURSIVE layoutChildrenKeep(_, _, _)
layoutChildrenKeep(node, angle, distance) ==
    IF Len(node.children) = 0 THEN <<>>
    ELSE
      LET nodeXY == OrZero(node.xy)
          angleStep == Frac(1, Len(node.children))
          visit(index) ==
              LET child == node.children[index + 1]
                  childAngle == FracAdd(angle, FracMul(<<index, 1>>, angleStep))
                  xy == IF child.xy.def THEN child.xy
                        ELSE XY(nodeXY.w, nodeXY.h,
                                Append(nodeXY.offs, [turn |-> childAngle, dist |-> distance]))
              IN  <<[ref |-> child.ref, xy |-> xy]>>
                  \o layoutChildrenKeep([child EXCEPT !.xy = xy], childAngle,
                                        FracMul(distance, Decay))
      IN  Concat([i \in 1..Len(node.children) |-> visit(i - 1)])

\* The writes child.x = ..., child.y = ... of layoutChildren(node, angle,
\* distance), in the order the code makes them, each to the object child.ref.
\* Angles are in turns (1 = 2*pi).
RECURSIVE layoutChildren(_, _, _)
layoutChildren(node, angle, distance) ==
    IF Len(node.children) = 0 THEN <<>>
    ELSE
      LET nodeXY == OrZero(node.xy)
          angleStep == Frac(1, Len(node.children))
          visit(index) ==
              LET child == node.children[index + 1]
                  childAngle == FracAdd(angle, FracMul(<<index, 1>>, angleStep))
                  xy == XY(nodeXY.w, nodeXY.h,
                           Append(nodeXY.offs, [turn |-> childAngle, dist |-> distance]))
              IN  <<[ref |-> child.ref, xy |-> xy]>>
                  \o layoutChildren([child EXCEPT !.xy = xy], childAngle,
                                    FracMul(distance, Decay))
      IN  Concat([i \in 1..Len(node.children) |-> visit(i - 1)])

\* the value of x, y a reader finds in object r after the writes ws
ReadXY(r, old, ws) ==
    LET hits == {j \in 1..Len(ws) : ws[j].ref = r}
    IN  IF hits = {} THEN old
        ELSE ws[CHOOSE j \in hits : \A k \in hits : k <= j].xy

\* the tree as seen once the writes ws have been made to its objects
RECURSIVE Written(_, _)
Written(n, ws) ==
    [n EXCEPT !.xy = ReadXY(n.ref, @, ws),
              !.children = [i \in 1..Len(@) |-> Written(@[i], ws)]]

\* layoutMindMap with canvasRef.current of size <<clientWidth, clientHeight>>:
\* the tree handed to setRootNode. updatedRoot is a new object, its children
\* are the objects of rootNode, written in place.
layoutMindMap(root, size) ==
    LET updatedRoot == [root EXCEPT !.ref = Copy(<<>>), !.xy = XY(size[1], size[2], <<>>)]
    IN  Written(updatedRoot, layoutChildren(updatedRoot, <<0, 1>>, <<BaseDistance, 1>>))

\* --------------------------------------------------------- tree mutations

\* newNode of addChildNode (x and y are not set)
newNode(t) == Node(NewRef, NodeId(t), "New Idea", <<>>, NoXY)

\* an addChildToNode that copies the path to the parent alone and hands back
\* the very object of a subtree that does not hold the parent
RECURSIVE addChildPathCopy(_, _, _, _)
addChildPathCopy(node, parentId, new, path) ==
    IF node.id = parentId
    THEN [node EXCEPT !.ref = Copy(path), !.children = Append(@, new)]
    ELSE IF parentId \notin Ids(node) THEN node
    ELSE [node EXCEPT !.ref = Copy(path),
                      !.children = [i \in 1..Len(@) |->
                                      addChildPathCopy(@[i], parentId, new, Append(path, i))]]

\* addChildToNode; path is where the node stands in the tree, which names the
\* object the spread makes
RECURSIVE addChildToNode(_, _, _, _)
addChildToNode(node, parentId, new, path) ==
    IF node.id = parentId
    THEN [node EXCEPT !.ref = Copy(path), !.children = Append(@, new)]
    ELSE [node EXCEPT !.ref = Copy(path),
                      !.children = [i \in 1..Len(@) |->
                                      addChildToNode(@[i], parentId, new, Append(path, i))]]

\* node.children.filter(child => child.id !== nodeId), as the kept indices
Surviving(children, nodeId) ==
    SelectSeqOf([i \in 1..Len(children) |-> i],
                {i \in 1..Len(children) : children[i].id # nodeId})

\* a removeNodeFromTree that filters the children of the node it is given and
\* does not go on into the children that stay
removeNodeShallow(node, nodeId, path) ==
    LET kept == Surviving(node.children, nodeId)
    IN  [node EXCEPT !.ref = Copy(path),
                     !.children = [j \in 1..Len(kept) |-> node.children[kept[j]]]]

RECURSIVE removeNodeFromTree(_, _, _)
removeNodeFromTree(node, nodeId, path) ==
    LET kept == Surviving(node.children, nodeId)
    IN  [node EXCEPT !.ref = Copy(path),
                     !.children = [j \in 1..Len(kept) |->
                                     removeNodeFromTree(node.children[kept[j]], nodeId,
                                                        Append(path, kept[j]))]]

\* an updateNodeContent that sets the content of every node it visits
RECURSIVE updateEveryContent(_, _, _, _)
updateEveryContent(node, id, content, path) ==
    [node EXCEPT !.ref = Copy(path), !.content = content,
                 !.children = [i \in 1..Len(@) |->
                                 updateEveryContent(@[i], id, content, Append(path, i))]]

RECURSIVE updateNodeContent(_, _, _, _)
updateNodeContent(node, id, content, path) ==
    IF node.id = id
    THEN [node EXCEPT !.ref = Copy(path), !.content = content]
    ELSE [node EXCEPT !.ref = Copy(path),
                      !.children = [i \in 1..Len(@) |->
                                      updateNodeContent(@[i], id, content, Append(path, i))]]

\* ---------------------------------------------------------- serialization

\* One token of the JSON text. kind is a punctuation mark or the key the value
\* belongs to; the unused fields hold fillers.
Punct(k) == [kind |-> k, id |-> NullId, text |-> "", xy |-> NoXY]
IdTok(id) == [kind |-> "id", id |-> id, text |-> "", xy |-> NoXY]
ContentTok(c) == [kind |-> "content", id |-> NullId, text |-> c, xy |-> NoXY]
XYTok(xy) == [kind |-> "x,y", id |-> NullId, text |-> "", xy |-> xy]

\* JSON.stringify(node): the keys id, content, children and, when they are
\* defined, x and y; an object that occurs twice is written out twice
RECURSIVE Stringify(_)
Stringify(n) ==
    <<Punct("{"), IdTok(n.id), ContentTok(n.content), Punct("[")>>
    \o Concat([i \in 1..Len(n.children) |-> Stringify(n.children[i])])
    \o <<Punct("]")>>
    \o (IF n.xy.def THEN <<XYTok(n.xy)>> ELSE <<>>)
    \o <<Punct("}")>>

\* JSON.parse of one object at the head of toks: the node and the tokens left.
\* Every object parsed is a new object.
RECURSIVE ParseNode(_, _)
RECURSIVE ParseList(_, _, _)
\* a ParseList that builds the array back to front
RECURSIVE ParseListReversed(_, _, _)
ParseListReversed(toks, path, i) ==
    IF Head(toks).kind = "]" THEN [nodes |-> <<>>, rest |-> toks]
    ELSE LET first == ParseNode(toks, Append(path, i))
             more == ParseListReversed(first.rest, path, i + 1)
         IN  [nodes |-> more.nodes \o <<first.node>>, rest |-> more.rest]

ParseNode(toks, path) ==
    LET list == ParseList(SubSeq(toks, 5, Len(toks)), path, 1)
        after == Tail(list.rest)
        hasXY == Head(after).kind = "x,y"
    IN  [node |-> Node(Copy(path), toks[2].id, toks[3].text, list.nodes,
                       IF hasXY THEN Head(after).xy ELSE NoXY),
         rest |-> IF hasXY THEN Tail(Tail(after)) ELSE Tail(after)]

\* the elements of an array up to its closing bracket, which stays in rest
ParseList(toks, path, i) ==
    IF Head(toks).kind = "]" THEN [nodes |-> <<>>, rest |-> toks]
    ELSE LET first == ParseNode(toks, Append(path, i))
             more == ParseList(first.rest, path, i + 1)
         IN  [nodes |-> <<first.node>> \o more.nodes, rest |-> more.rest]

Parse(toks) == ParseNode(toks, <<>>).node

\* localStorage.getItem("mindMap") === null
NoRecord == <<>>

\* the initializer of rootNode
InitialRoot(saved) == IF saved # NoRecord THEN Canon(Parse(saved)) ELSE DefaultRoot

\* JSON.stringify(rootNode, null, 2) of exportMindMap: the same tokens, indented
ExportData == Stringify(rootNode)

\* --------------------------------------------------------------- effects

\* The two effects that run after a render with a new rootNode, in the order
\* they are declared: the record is written, then layoutMindMap hands the laid
\* out tree to setRootNode.
Effects(root) ==
    /\ storage' = Stringify(root)
    /\ rootNode' = Canon(layoutMindMap(root, canvas))

\* ------------------------------------------------- pages that are not open

\* the keys of localStorage, one per page that keeps a record
TasksKey == "tasks"
StickyNotesKey == "stickyNotes"
MarkdownKey == "markdownText"
\* a calendar that keeps its tasks under the key of the task list
CalendarKeyShared == "tasks"
CalendarKey == "calendarTasks"
MindMapKey == "mindMap"
SnippetsKey == "codeSnippets"
PatternsKey == "savedRegexPatterns"

\* the keys whose records localStorage holds in this model; the record of
\* MindMapKey is the variable storage
Keys == {TasksKey, StickyNotesKey, MarkdownKey, CalendarKey, SnippetsKey,
         PatternsKey}

\* no component of the pages modelled by page and model is mounted
NoModel == [component |-> "none"]
\* no toast is on screen
NoToast == "none"

\* enum TimerState
IDLE == "IDLE"
RUNNING == "RUNNING"
PAUSED == "PAUSED"
FINISHED == "FINISHED"

\* minutes to seconds: the factor 60 of every setTimeLeft
SecondsPerMinute == 60
\* useState(22) of workDuration and useState(5) of breakDuration
InitialWorkDuration == 22
InitialBreakDuration == 5

\* The variables a handler of PomodoroPage closes over, as a render holds
\* them. No interval is running, or no toast is shown, when set is FALSE.
Closure(b, w, d) == [set |-> TRUE, isBreak |-> b, workDuration |-> w,
                     breakDuration |-> d]
NoClosure == [set |-> FALSE, isBreak |-> FALSE, workDuration |-> 0,
              breakDuration |-> 0]

\* the state of PomodoroPage after construction
PomodoroConstructed ==
    /\ timeLeft = 22 * SecondsPerMinute
    /\ timerState = IDLE
    /\ workDuration = InitialWorkDuration
    /\ breakDuration = InitialBreakDuration
    /\ isBreak = FALSE
    /\ interval = NoClosure
    /\ notification = NoClosure

\* the router shows page p, whose state is not modelled by page and model
OtherPageOpen(p) ==
    /\ page = p
    /\ model = NoModel
    /\ localStorage = [k \in Keys |-> NoRecord]
    /\ lastToast = NoToast

\* ---------------------------------------------------------------- actions

Init ==
    /\ storage = NoRecord
    /\ rootNode = InitialRoot(storage)
    /\ editingNodeId = NullId
    /\ editNodeContent = ""
    /\ now = 1
    /\ canvas \in Sizes
    /\ mounted = FALSE
    /\ OtherPageOpen("/mind-map")
    /\ PomodoroConstructed

\* the first commit: the ref is attached and the effects run
Mount ==
    /\ ~mounted
    /\ mounted' = TRUE
    /\ Effects(rootNode)
    /\ UNCHANGED <<editingNodeId, editNodeContent, now, canvas>>
    /\ UNCHANGED <<toolsState, pomodoroState>>

\* the render after a pass of the effects has another pass to run: the
\* canvas is attached and setRootNode was handed an object that is not the
\* rootNode of the render, so the dependency [rootNode] of both effects changed
LayoutTriggered ==
    /\ mounted
    /\ layoutMindMap(rootNode, canvas).ref # rootNode.ref

\* setRootNode of layoutMindMap gives rootNode a new object, so the render
\* that follows runs both effects again
LayoutEffect ==
    /\ LayoutTriggered
    /\ Effects(rootNode)
    /\ UNCHANGED <<editingNodeId, editNodeContent, now, canvas, mounted>>
    /\ UNCHANGED <<toolsState, pomodoroState>>

addChildNode(parentId) ==
    /\ mounted
    /\ Count(rootNode) < MaxNodes
    /\ Effects(addChildToNode(rootNode, parentId, newNode(now), <<>>))
    /\ editingNodeId' = NodeId(now)
    /\ editNodeContent' = "New Idea"
    /\ UNCHANGED <<now, canvas, mounted>>
    /\ UNCHANGED <<toolsState, pomodoroState>>

\* deleting "root" is refused with a toast: no state is set
deleteNode(nodeId) ==
    /\ mounted
    /\ IF nodeId = RootId
       THEN UNCHANGED <<rootNode, storage>>
       ELSE Effects(removeNodeFromTree(rootNode, nodeId, <<>>))
    /\ UNCHANGED <<editingNodeId, editNodeContent, now, canvas, mounted>>
    /\ UNCHANGED <<toolsState, pomodoroState>>

editNode(id, content) ==
    /\ mounted
    /\ editingNodeId' = id
    /\ editNodeContent' = content
    /\ UNCHANGED <<rootNode, storage, now, canvas, mounted>>
    /\ UNCHANGED <<toolsState, pomodoroState>>

\* onChange of the input shown in the node being edited
TypeContent(text) ==
    /\ mounted
    /\ editingNodeId \in Ids(rootNode)
    /\ editNodeContent' = text
    /\ UNCHANGED <<rootNode, editingNodeId, storage, now, canvas, mounted>>
    /\ UNCHANGED <<toolsState, pomodoroState>>

saveNodeEdit ==
    /\ mounted
    /\ editingNodeId # NullId
    /\ Effects(updateNodeContent(rootNode, editingNodeId, editNodeContent, <<>>))
    /\ editingNodeId' = NullId
    /\ editNodeContent' = ""
    /\ UNCHANGED <<now, canvas, mounted>>
    /\ UNCHANGED <<toolsState, pomodoroState>>

resetMindMap ==
    /\ mounted
    /\ Effects(DefaultRoot)
    /\ UNCHANGED <<editingNodeId, editNodeContent, now, canvas, mounted>>
    /\ UNCHANGED <<toolsState, pomodoroState>>

\* time passes: Date.now() returns a later value
Tick ==
    /\ now < MaxClock
    /\ now' = now + 1
    /\ UNCHANGED <<rootNode, editingNodeId, editNodeContent, storage, canvas, mounted>>
    /\ UNCHANGED <<toolsState, pomodoroState>>

\* the page is loaded again: the component is constructed from the record
Reload ==
    /\ mounted
    /\ rootNode' = InitialRoot(storage)
    /\ editingNodeId' = NullId
    /\ editNodeContent' = ""
    /\ mounted' = FALSE
    /\ UNCHANGED <<storage, now, canvas>>
    /\ UNCHANGED <<toolsState, pomodoroState>>

AddChild == \E parentId \in Ids(rootNode) \cup {AbsentId} : addChildNode(parentId)
Delete == \E nodeId \in Ids(rootNode) : deleteNode(nodeId)
Edit == \E n \in Range(Nodes(rootNode)) : editNode(n.id, n.content)
Type == \E text \in Typed : TypeContent(text)

Next ==
    \/ Mount
    \/ LayoutEffect
    \/ AddChild
    \/ Delete
    \/ Edit
    \/ Type
    \/ saveNodeEdit
    \/ resetMindMap
    \/ Tick
    \/ Reload

Spec == Init /\ [][Next]_vars

\* ====================================================== the Pomodoro page

\* the largest number of minutes typed into a duration field
MaxMinutes == 1

Digits == <<"0", "1", "2", "3", "4", "5", "6", "7", "8", "9">>
IsDigit(c) == \E d \in 1..Len(Digits) : Digits[d] = c
DigitValue(c) == (CHOOSE d \in 1..Len(Digits) : Digits[d] = c) - 1

\* the number read from the digits at the head of s, given the number read
\* so far
RECURSIVE ReadDigits(_, _)
ReadDigits(s, acc) ==
    IF s # <<>> /\ IsDigit(Head(s))
    THEN ReadDigits(Tail(s), 10 * acc + DigitValue(Head(s)))
    ELSE acc

\* parseInt(value, 10): an optional sign and the digits that follow it; what
\* comes after the digits is ignored; NaN when there is no digit
parseInt(s) ==
    LET neg == s # <<>> /\ Head(s) = "-"
        body == IF neg THEN Tail(s) ELSE s
    IN  IF body # <<>> /\ IsDigit(Head(body))
        THEN [nan |-> FALSE, n |-> IF neg THEN 0 - ReadDigits(body, 0)
                                          ELSE ReadDigits(body, 0)]
        ELSE [nan |-> TRUE, n |-> 0]

\* the texts a duration field hands to its onChange
DurationTexts ==
    {<<>>, <<"0">>, <<"-", "1">>, <<"1", ".", "5">>}
    \cup {<<Digits[m + 1]>> : m \in 1..MaxMinutes}

\* The countdown effect after a render. It runs when timerState or isBreak
\* changed: the interval of the render before is cleared, and a new one is
\* set when the timer runs. Its callback closes over the render's variables.
CountdownEffect ==
    interval' = IF timerState' = timerState /\ isBreak' = isBreak THEN interval
                ELSE IF timerState' = RUNNING
                THEN Closure(isBreak', workDuration', breakDuration')
                ELSE NoClosure

\* the Start / Resume button, shown when the timer does not run
startTimer ==
    /\ timerState # RUNNING
    /\ timerState' = RUNNING
    /\ UNCHANGED <<timeLeft, workDuration, breakDuration, isBreak, notification>>
    /\ CountdownEffect
    /\ UNCHANGED <<mindMapState, toolsState>>

\* a pauseTimer whose interval goes on
pauseTimerKeepInterval ==
    /\ timerState = RUNNING
    /\ timerState' = PAUSED
    /\ UNCHANGED <<timeLeft, workDuration, breakDuration, isBreak, notification>>
    /\ UNCHANGED interval
    /\ UNCHANGED <<mindMapState, toolsState>>

\* the Pause button, shown when the timer runs
pauseTimer ==
    /\ timerState = RUNNING
    /\ timerState' = PAUSED
    /\ UNCHANGED <<timeLeft, workDuration, breakDuration, isBreak, notification>>
    /\ CountdownEffect
    /\ UNCHANGED <<mindMapState, toolsState>>

\* a resetTimer that always restarts a work session
resetTimerToWork ==
    /\ timerState' = IDLE
    /\ timeLeft' = workDuration * SecondsPerMinute
    /\ UNCHANGED <<workDuration, breakDuration, isBreak, notification>>
    /\ CountdownEffect
    /\ UNCHANGED <<mindMapState, toolsState>>

resetTimer ==
    /\ timerState' = IDLE
    /\ timeLeft' = IF isBreak THEN breakDuration * SecondsPerMinute
                              ELSE workDuration * SecondsPerMinute
    /\ UNCHANGED <<workDuration, breakDuration, isBreak, notification>>
    /\ CountdownEffect
    /\ UNCHANGED <<mindMapState, toolsState>>

\* switchMode as the render c holds it: isBreak, workDuration and
\* breakDuration are the variables of that render
switchMode(c) ==
    /\ isBreak' = ~c.isBreak
    /\ timeLeft' = (IF c.isBreak THEN c.workDuration ELSE c.breakDuration)
                   * SecondsPerMinute
    /\ timerState' = IDLE
    /\ UNCHANGED <<workDuration, breakDuration, notification>>
    /\ CountdownEffect
    /\ UNCHANGED <<mindMapState, toolsState>>

\* the button "Switch to Break/Work": switchMode of the current render
SwitchButton == switchMode(Closure(isBreak, workDuration, breakDuration))

\* the button Switch of the toast: switchMode of the render in which the
\* countdown effect set the interval that showed the toast
SwitchFromToast ==
    /\ notification.set
    /\ switchMode(notification)

\* the toast leaves the screen
DismissToast ==
    /\ notification.set
    /\ notification' = NoClosure
    /\ UNCHANGED <<timeLeft, timerState, workDuration, breakDuration, isBreak,
                   interval>>
    /\ UNCHANGED <<mindMapState, toolsState>>

\* a callback that goes on counting below zero and never finishes
SecondBelowZero ==
    /\ interval.set
    /\ timeLeft' = timeLeft - 1
    /\ timeLeft > 0 - SecondsPerMinute
    /\ UNCHANGED <<timerState, notification>>
    /\ UNCHANGED <<workDuration, breakDuration, isBreak>>
    /\ CountdownEffect
    /\ UNCHANGED <<mindMapState, toolsState>>

\* the callback of the interval, once a second
Second ==
    /\ interval.set
    /\ IF timeLeft <= 1
       THEN /\ timeLeft' = 0
            /\ timerState' = FINISHED
            /\ notification' = interval
       ELSE /\ timeLeft' = timeLeft - 1
            /\ UNCHANGED <<timerState, notification>>
    /\ UNCHANGED <<workDuration, breakDuration, isBreak>>
    /\ CountdownEffect
    /\ UNCHANGED <<mindMapState, toolsState>>

\* onChange of the field Work Duration, disabled while a work session runs
handleWorkDurationChange(value) ==
    /\ ~(timerState = RUNNING /\ ~isBreak)
    /\ LET newDuration == parseInt(value)
       IN  IF ~newDuration.nan /\ newDuration.n > 0
           THEN /\ workDuration' = newDuration.n
                /\ timeLeft' = IF ~isBreak /\ timerState # RUNNING
                               THEN newDuration.n * SecondsPerMinute
                               ELSE timeLeft
           ELSE UNCHANGED <<workDuration, timeLeft>>
    /\ UNCHANGED <<timerState, breakDuration, isBreak, notification>>
    /\ CountdownEffect
    /\ UNCHANGED <<mindMapState, toolsState>>

\* onChange of the field Break Duration, disabled while a break runs
handleBreakDurationChange(value) ==
    /\ ~(timerState = RUNNING /\ isBreak)
    /\ LET newDuration == parseInt(value)
       IN  IF ~newDuration.nan /\ newDuration.n > 0
           THEN /\ breakDuration' = newDuration.n
                /\ timeLeft' = IF isBreak /\ timerState # RUNNING
                               THEN newDuration.n * SecondsPerMinute
                               ELSE timeLeft
           ELSE UNCHANGED <<breakDuration, timeLeft>>
    /\ UNCHANGED <<timerState, workDuration, isBreak, notification>>
    /\ CountdownEffect
    /\ UNCHANGED <<mindMapState, toolsState>>

WorkDurationChange == \E value \in DurationTexts : handleWorkDurationChange(value)
BreakDurationChange == \E value \in DurationTexts : handleBreakDurationChange(value)

\* the Pomodoro page is open; the mind map is as Init leaves it
PomodoroInit ==
    /\ PomodoroConstructed
    /\ OtherPageOpen("/pomodoro")
    /\ storage = NoRecord
    /\ rootNode = DefaultRoot
    /\ editingNodeId = NullId
    /\ editNodeContent = ""
    /\ now = 1
    /\ canvas = <<800, 600>>
    /\ mounted = FALSE

PomodoroNext ==
    \/ startTimer
    \/ pauseTimer
    \/ resetTimer
    \/ SwitchButton
    \/ SwitchFromToast
    \/ DismissToast
    \/ Second
    \/ WorkDurationChange
    \/ BreakDurationChange

PomodoroSpec == PomodoroInit /\ [][PomodoroNext]_vars

\* ------------------------------------------------------- what claims read

\* a tree without object identities and positions: identifiers, contents and
\* child order
RECURSIVE Plain(_)
Plain(n) ==
    [id |-> n.id, content |-> n.content,
     children |-> [i \in 1..Len(n.children) |-> Plain(n.children[i])]]

\* identifiers and child order alone
RECURSIVE Skeleton(_)
Skeleton(n) ==
    [id |-> n.id, children |-> [i \in 1..Len(n.children) |-> Skeleton(n.children[i])]]

\* the paths (child indices from the root, 1-based) of the nodes of a tree
RECURSIVE Paths(_)
Paths(n) ==
    {<<>>} \cup UNION {{<<i>> \o p : p \in Paths(n.children[i])} : i \in 1..Len(n.children)}

RECURSIVE At(_, _)
At(n, p) == IF p = <<>> THEN n ELSE At(n.children[Head(p)], Tail(p))

\* the depth of the deepest node (the root has depth 0)
RECURSIVE Depth(_)
Depth(n) ==
    IF Len(n.children) = 0 THEN 0
    ELSE 1 + (CHOOSE d \in {Depth(n.children[i]) : i \in 1..Len(n.children)} :
                 \A i \in 1..Len(n.children) : Depth(n.children[i]) <= d)

IsPrefix(p, q) == Len(p) <= Len(q) /\ SubSeq(q, 1, Len(p)) = p

\* the node at path q has the identifier and no node above it has: the
\* recursions of addChildToNode and updateNodeContent stop at it
Matched(t, parentId, q) ==
    /\ At(t, q).id = parentId
    /\ \A k \in 0..(Len(q) - 1) : At(t, SubSeq(q, 1, k)).id # parentId

\* the node at path p is below a node with the identifier
Below(t, parentId, p) ==
    \E k \in 0..(Len(p) - 1) : At(t, SubSeq(p, 1, k)).id = parentId

\* ------------------------------------------------------------------ C1

\* C1: deleteNode(id) for an identifier id of the tree leaves no node with
\* identifier id in the tree, and deleteNode("root") changes neither the tree
\* nor the record.
C1_DeleteRemovesId ==
    [][\A id \in Ids(rootNode) :
         deleteNode(id) =>
           IF id = RootId THEN UNCHANGED <<rootNode, storage>>
           ELSE id \notin Ids(rootNode')]_vars

\* node-1 is being edited and is no longer in a tree that holds node-2: it was
\* deleted after node-2 was added (a reset would have taken node-2 as well)
C1_Witness ==
    /\ mounted
    /\ editingNodeId = NodeId(1)
    /\ NodeId(1) \notin Ids(rootNode)
    /\ NodeId(2) \in Ids(rootNode)
    /\ Depth(rootNode) >= 2

\* ------------------------------------------------------------------ C2

\* C2: addChildNode(parentId) for an identifier of the tree makes the tree
\* one node larger (the content of the new node is the constant "New Idea":
\* the handler takes none from its caller).
C2_AddChildAddsOne ==
    [][\A parentId \in Ids(rootNode) :
         addChildNode(parentId) => Count(rootNode') = Count(rootNode) + 1]_vars

\* ------------------------------------------------------------------ C3

\* C3: the root of the tree has the identifier "root" and no other node has.
C3_OneRoot ==
    /\ rootNode.id = RootId
    /\ \A i \in 2..Count(rootNode) : Nodes(rootNode)[i].id # RootId

\* a tree that nodes were added to and deleted from, laid out and stored
C3_Witness ==
    /\ mounted
    /\ Count(rootNode) >= 3
    /\ editingNodeId = NodeId(1)
    /\ NodeId(1) \notin Ids(rootNode)

\* ------------------------------------------------------------------ C4

\* C4: saveNodeEdit keeps the identifiers and the child order of every node,
\* gives the topmost nodes with the identifier editingNodeId the content of
\* the edit buffer, changes the content of no node whose identifier is not
\* editingNodeId, and when no node has that identifier leaves identifiers,
\* contents and child order as they were.
C4_RenameOnlyContent ==
    [][saveNodeEdit =>
         /\ Skeleton(rootNode') = Skeleton(rootNode)
         /\ \A p \in Paths(rootNode) :
              Matched(rootNode, editingNodeId, p)
                => At(rootNode', p).content = editNodeContent
         /\ \A i \in 1..Count(rootNode) :
              Nodes(rootNode)[i].id # editingNodeId
                => Nodes(rootNode')[i].content = Nodes(rootNode)[i].content
         /\ editingNodeId \notin Ids(rootNode) => Plain(rootNode') = Plain(rootNode)]_vars

\* a node other than the root was renamed to the typed text while another
\* node kept the content it was created with
C4_Witness ==
    /\ mounted
    /\ editingNodeId = NullId
    /\ \E i, j \in 2..Count(rootNode) :
         /\ Nodes(rootNode)[i].content \in Typed
         /\ Nodes(rootNode)[j].content = "New Idea"

\* ------------------------------------------------------------------ C5

\* C5: addChildNode with an identifier that no node has leaves identifiers,
\* contents and child order, the node being edited and the edit buffer as
\* they were.
C5_AbsentParentNoOp ==
    [][addChildNode(AbsentId) =>
         /\ Plain(rootNode') = Plain(rootNode)
         /\ UNCHANGED <<editingNodeId, editNodeContent>>]_vars

\* ------------------------------------------------------------------ C6

\* the tree without the subtree at path p (p is not the root)
RECURSIVE RemoveAt(_, _)
RemoveAt(n, p) ==
    IF Len(p) = 1
    THEN [n EXCEPT !.children = SubSeq(@, 1, p[1] - 1) \o SubSeq(@, p[1] + 1, Len(@))]
    ELSE [n EXCEPT !.children[Head(p)] = RemoveAt(@, Tail(p))]

\* C6: deleteNode(id), id not "root", removes one node with that identifier
\* and its subtree, and every node outside that subtree stays where it was
\* with its content.
C6_DeleteOneSubtree ==
    [][\A id \in Ids(rootNode) \ {RootId} :
         deleteNode(id) =>
           \E p \in Paths(rootNode) :
             /\ At(rootNode, p).id = id
             /\ Plain(rootNode') = Plain(RemoveAt(rootNode, p))]_vars

\* ------------------------------------------------------------------ C7

\* the positions of the nodes in depth-first pre-order
XYSeq(t) == [i \in 1..Count(t) |-> Nodes(t)[i].xy]

\* the tree with x and y undefined in every node
RECURSIVE Erased(_)
Erased(n) ==
    [n EXCEPT !.xy = NoXY, !.children = [i \in 1..Len(@) |-> Erased(@[i])]]

\* C7: for either canvas size, laying out the laid out tree again gives every
\* node the position it has, and the positions are those the layout gives the
\* same tree with no positions at all: they do not depend on the positions
\* the nodes held before.
C7_LayoutIdempotent ==
    \A size \in Sizes :
      LET once == layoutMindMap(rootNode, size)
          twice == layoutMindMap(once, size)
          fresh == layoutMindMap(Erased(rootNode), size)
      IN  /\ XYSeq(twice) = XYSeq(once)
          /\ XYSeq(fresh) = XYSeq(once)

\* a tree read from the record in which a node added last has no position
\* yet and the others hold the positions of the layout before it was added
C7_Witness ==
    /\ ~mounted
    /\ Count(rootNode) >= 3
    /\ Depth(rootNode) >= 2
    /\ \E i \in 2..Count(rootNode) : ~Nodes(rootNode)[i].xy.def
    /\ \E i \in 2..Count(rootNode) : Nodes(rootNode)[i].xy.def

\* ------------------------------------------------------------------ C8

\* 200 * 0.8^d
RECURSIVE Dist(_)
Dist(d) == IF d = 0 THEN <<BaseDistance, 1>> ELSE FracMul(Dist(d - 1), Decay)

\* child i (0-based) of a node with k children, incoming angle a and depth d
\* is at the node's position plus Dist(d) at the angle a + i/k turns, and so
\* on below it
RECURSIVE WellPlaced(_, _, _)
WellPlaced(n, a, d) ==
    \A i \in 1..Len(n.children) :
      LET angle == FracAdd(a, Frac(i - 1, Len(n.children)))
          child == n.children[i]
      IN  /\ child.xy = XY(n.xy.w, n.xy.h,
                           Append(n.xy.offs, [turn |-> angle, dist |-> Dist(d)]))
          /\ WellPlaced(child, angle, d + 1)

\* C8: once the page is mounted (the layout has run on every tree it shows)
\* the root is at the centre of the canvas and every child is at its parent's
\* position plus 200 * 0.8^depth at the angle a + i * 2*pi/k.
C8_LayoutFormula ==
    mounted =>
      /\ rootNode.xy = XY(canvas[1], canvas[2], <<>>)
      /\ WellPlaced(rootNode, <<0, 1>>, 0)

\* ------------------------------------------------------------------ C9

C10_RoundTrip == Plain(Parse(ExportData)) = Plain(rootNode)

\* the page was loaded again from the record of a tree with children of
\* different identifiers under one node
C10_Witness ==
    /\ ~mounted
    /\ storage # NoRecord
    /\ Len(rootNode.children) >= 2
    /\ rootNode.children[1].id # rootNode.children[2].id

\* ================================== the pages that keep a list in a record

\* a record or an item is not added once localStorage holds this many
\* records and items
MaxStored == 2

\* Texts typed into a field, as sequences of characters
Texts == {<<>>, <<" ">>, <<"a">>}
IsSpace(c) == c = " "

\* String.prototype.trim
RECURSIVE TrimStart(_)
TrimStart(t) == IF t # <<>> /\ IsSpace(Head(t)) THEN TrimStart(Tail(t)) ELSE t
RECURSIVE TrimEnd(_)
TrimEnd(t) ==
    IF t # <<>> /\ IsSpace(t[Len(t)]) THEN TrimEnd(SubSeq(t, 1, Len(t) - 1)) ELSE t
Trim(t) == TrimEnd(TrimStart(t))

\* a text that JSON.parse rejects: an object that is opened and not closed
Malformed == <<Punct("{")>>

\* One element of an array in a JSON text. A Date is written as its ISO
\* string, every other field as it is.
toJSON(item) ==
    IF "date" \in DOMAIN item
    THEN [item EXCEPT !.date = [type |-> "string", day |-> @.day]]
    ELSE item
ItemTok(item) == [kind |-> "object", value |-> toJSON(item)]

\* JSON.stringify of an array of objects
JSONstringify(list) ==
    <<Punct("[")>> \o [i \in 1..Len(list) |-> ItemTok(list[i])] \o <<Punct("]")>>

\* JSON.parse of a record: the array, or ok = FALSE where it throws
JSONparse(text) ==
    IF /\ Len(text) >= 2
       /\ Head(text).kind = "["
       /\ text[Len(text)].kind = "]"
       /\ \A i \in 2..(Len(text) - 1) : text[i].kind = "object"
    THEN [ok |-> TRUE,
          value |-> [i \in 1..(Len(text) - 2) |-> text[i + 1].value]]
    ELSE [ok |-> FALSE, value |-> <<>>]

\* localStorage.getItem(key), NoRecord for null
getItem(key) == IF key = MindMapKey THEN storage ELSE localStorage[key]

\* localStorage.setItem(key, value)
setItem(key, value) ==
    /\ localStorage' = IF key \in Keys
                       THEN [localStorage EXCEPT ![key] = value]
                       ELSE localStorage
    /\ storage' = IF key = MindMapKey THEN value ELSE storage

\* saved ? JSON.parse(saved) : default, the initializer of every list
Saved(key, default) ==
    LET saved == getItem(key)
    IN  IF saved # NoRecord THEN JSONparse(saved)
        ELSE [ok |-> TRUE, value |-> default]

\* the flags a pattern is saved with
Flags(g, i, m) == [global |-> g, caseInsensitive |-> i, multiline |-> m]

\* the patterns RegexTesterPage starts with when none is saved
DefaultPatterns ==
    <<[name |-> <<"Email">>,
       pattern |-> <<"[a-zA-Z0-9._%+-]+@[a-zA-Z0-9.-]+\\.[a-zA-Z]{2,}">>,
       flags |-> Flags(TRUE, TRUE, FALSE)],
      [name |-> <<"URL">>,
       pattern |-> <<"https?:\\/\\/[\\w\\d\\-._~:/?#[\\]@!$&'()*+,;=]+">>,
       flags |-> Flags(TRUE, FALSE, FALSE)],
      [name |-> <<"Phone Number">>,
       pattern |-> <<"\\(\\d{3}\\)\\s?\\d{3}-\\d{4}">>,
       flags |-> Flags(TRUE, FALSE, FALSE)]>>

\* the records and the items (list elements, mind-map nodes) localStorage
\* holds; the patterns the page starts with and the root are not counted
ItemsIn(text) ==
    Cardinality({i \in 1..Len(text) :
                    \/ /\ text[i].kind = "object"
                       /\ \A d \in 1..Len(DefaultPatterns) :
                              text[i].value # DefaultPatterns[d]
                    \/ /\ text[i].kind = "id"
                       /\ text[i].id # RootId})
RECURSIVE SumItems(_)
SumItems(ks) ==
    IF ks = {} THEN 0
    ELSE LET k == CHOOSE x \in ks : TRUE
         IN  (IF getItem(k) = NoRecord THEN 0 ELSE 1 + ItemsIn(getItem(k)))
             + SumItems(ks \ {k})
Stored == SumItems(Keys \cup {MindMapKey})
\* there is room for n more records and items
Room(n) == Stored + n <= MaxStored

\* an exception thrown while a component renders unmounts the application
Crashed == [component |-> "crashed"]

\* what no handler of these pages sets
PageFrame ==
    UNCHANGED <<page, now, rootNode, editingNodeId, editNodeContent, canvas,
                mounted, pomodoroState>>

\* ------------------------------------------------------------- TasksPage

\* Math.round(x) for x = num / den >= 0: the integer nearest to x, the upper
\* one of two that are equally near
MathRound(num, den) == (2 * num + den) \div (2 * den)

\* a progress effect that rounds down
ProgressFloor(tasks) ==
    IF Len(tasks) = 0 THEN 0
    ELSE (Len(SelectSeq(tasks, LAMBDA task : task.completed)) * 100) \div Len(tasks)

\* what the effect on [tasks] hands to setProgress
Progress(tasks) ==
    IF Len(tasks) = 0 THEN 0
    ELSE LET completedTasks == Len(SelectSeq(tasks, LAMBDA task : task.completed))
         IN  MathRound(completedTasks * 100, Len(tasks))

\* the state of TasksPage once the effect on [tasks] has run
TasksPage(tasks, newTaskTitle) ==
    [component |-> "TasksPage", tasks |-> tasks, newTaskTitle |-> newTaskTitle,
     progress |-> Progress(tasks)]

\* the persist effect of TasksPage, run after a render with a new tasks
\* a TasksPage without the persist effect
TasksEffectNone(tasks) == UNCHANGED <<localStorage, storage>>
TasksEffect(tasks) == setItem(TasksKey, JSONstringify(tasks))

TasksTitleChange(text) ==
    /\ page = "/tasks"
    /\ model.component = "TasksPage"
    /\ model' = [model EXCEPT !.newTaskTitle = text]
    /\ lastToast' = NoToast
    /\ UNCHANGED <<localStorage, storage>>
    /\ PageFrame

\* an addTask that adds whatever the field holds
TasksAddTaskUnchecked ==
    /\ page = "/tasks"
    /\ model.component = "TasksPage"
    /\ Room(1)
    /\ LET tasks == Append(model.tasks,
                           [id |-> now, title |-> model.newTaskTitle,
                            priority |-> "medium", completed |-> FALSE])
       IN  /\ model' = TasksPage(tasks, <<>>)
           /\ TasksEffect(tasks)
           /\ lastToast' = "Task added"
    /\ PageFrame

TasksAddTask ==
    /\ page = "/tasks"
    /\ model.component = "TasksPage"
    /\ IF Trim(model.newTaskTitle) = <<>>
       THEN /\ lastToast' = "Error"
            /\ UNCHANGED <<model, localStorage, storage>>
       ELSE /\ Room(1)
            /\ LET tasks == Append(model.tasks,
                                   [id |-> now, title |-> model.newTaskTitle,
                                    priority |-> "medium", completed |-> FALSE])
               IN  /\ model' = TasksPage(tasks, <<>>)
                   /\ TasksEffect(tasks)
                   /\ lastToast' = "Task added"
    /\ PageFrame

toggleTaskCompletion(id) ==
    /\ page = "/tasks"
    /\ model.component = "TasksPage"
    /\ LET tasks == [i \in 1..Len(model.tasks) |->
                        IF model.tasks[i].id = id
                        THEN [model.tasks[i] EXCEPT !.completed = ~@]
                        ELSE model.tasks[i]]
       IN  /\ model' = TasksPage(tasks, model.newTaskTitle)
           /\ TasksEffect(tasks)
    /\ lastToast' = NoToast
    /\ PageFrame

TasksDeleteTask(id) ==
    /\ page = "/tasks"
    /\ model.component = "TasksPage"
    /\ LET tasks == SelectSeq(model.tasks, LAMBDA task : task.id # id)
       IN  /\ model' = TasksPage(tasks, model.newTaskTitle)
           /\ TasksEffect(tasks)
    /\ lastToast' = "Task deleted"
    /\ PageFrame

\* ----------------------------------------------------------- CalendarPage

\* the days a task can be put on
Days == {1, 2}

\* new Date(day)
DateOf(day) == [type |-> "Date", day |-> day]

\* The state of CalendarPage; the color of a task is drawn at random and read
\* by the rendering alone.
CalendarPage(tasks, newTaskTitle, date) ==
    [component |-> "CalendarPage", tasks |-> tasks,
     newTaskTitle |-> newTaskTitle, date |-> date]

saveTasks(updatedTasks, newTaskTitle) ==
    /\ setItem(CalendarKey, JSONstringify(updatedTasks))
    /\ model' = CalendarPage(updatedTasks, newTaskTitle, model.date)

CalendarTitleChange(text) ==
    /\ page = "/calendar"
    /\ model.component = "CalendarPage"
    /\ model' = [model EXCEPT !.newTaskTitle = text]
    /\ lastToast' = NoToast
    /\ UNCHANGED <<localStorage, storage>>
    /\ PageFrame

setDate(day) ==
    /\ page = "/calendar"
    /\ model.component = "CalendarPage"
    /\ model' = [model EXCEPT !.date = DateOf(day)]
    /\ lastToast' = NoToast
    /\ UNCHANGED <<localStorage, storage>>
    /\ PageFrame

CalendarAddTask ==
    /\ page = "/calendar"
    /\ model.component = "CalendarPage"
    /\ IF Trim(model.newTaskTitle) = <<>>
       THEN /\ lastToast' = "Error"
            /\ UNCHANGED <<model, localStorage, storage>>
       ELSE /\ Room(IF getItem(CalendarKey) = NoRecord THEN 2 ELSE 1)
            /\ saveTasks(Append(model.tasks,
                                [id |-> now, title |-> model.newTaskTitle,
                                 date |-> DateOf(model.date.day)]), <<>>)
            /\ lastToast' = "Task added"
    /\ PageFrame

CalendarDeleteTask(id) ==
    /\ page = "/calendar"
    /\ model.component = "CalendarPage"
    /\ saveTasks(SelectSeq(model.tasks, LAMBDA task : task.id # id),
                 model.newTaskTitle)
    /\ lastToast' = "Task deleted"
    /\ PageFrame

handleDrop(taskId, dropDate) ==
    /\ page = "/calendar"
    /\ model.component = "CalendarPage"
    /\ saveTasks([i \in 1..Len(model.tasks) |->
                     IF model.tasks[i].id = taskId
                     THEN [model.tasks[i] EXCEPT !.date = DateOf(dropDate)]
                     ELSE model.tasks[i]], model.newTaskTitle)
    /\ lastToast' = "Task moved"
    /\ PageFrame

\* -------------------------------------------------------- StickyNotesPage

\* editingId === null
NoId == 0

\* The state of StickyNotesPage; the color and the position of a note are
\* drawn at random or taken from the pointer, and read by the rendering alone.
StickyNotesPage(notes, editingId, editContent) ==
    [component |-> "StickyNotesPage", notes |-> notes, editingId |-> editingId,
     editContent |-> editContent]

\* the persist effect of StickyNotesPage
NotesEffect(notes) == setItem(StickyNotesKey, JSONstringify(notes))

addNote ==
    /\ page = "/sticky-notes"
    /\ model.component = "StickyNotesPage"
    /\ Room(1)
    /\ LET notes == Append(model.notes, [id |-> now, content |-> <<>>])
       IN  /\ model' = StickyNotesPage(notes, now, <<>>)
           /\ NotesEffect(notes)
    /\ lastToast' = "Note added"
    /\ PageFrame

deleteNote(id) ==
    /\ page = "/sticky-notes"
    /\ model.component = "StickyNotesPage"
    /\ LET notes == SelectSeq(model.notes, LAMBDA note : note.id # id)
       IN  /\ model' = [model EXCEPT !.notes = notes]
           /\ NotesEffect(notes)
    /\ lastToast' = "Note deleted"
    /\ PageFrame

startEditing(note) ==
    /\ page = "/sticky-notes"
    /\ model.component = "StickyNotesPage"
    /\ model.editingId # note.id
    /\ model' = [model EXCEPT !.editingId = note.id, !.editContent = note.content]
    /\ lastToast' = NoToast
    /\ UNCHANGED <<localStorage, storage>>
    /\ PageFrame

\* onChange of the text area of the note being edited
setEditContent(text) ==
    /\ page = "/sticky-notes"
    /\ model.component = "StickyNotesPage"
    /\ \E i \in 1..Len(model.notes) : model.notes[i].id = model.editingId
    /\ model' = [model EXCEPT !.editContent = text]
    /\ lastToast' = NoToast
    /\ UNCHANGED <<localStorage, storage>>
    /\ PageFrame

\* the Save button and onBlur of the text area of the note being edited
saveNote ==
    /\ page = "/sticky-notes"
    /\ model.component = "StickyNotesPage"
    /\ \E i \in 1..Len(model.notes) : model.notes[i].id = model.editingId
    /\ LET notes == [i \in 1..Len(model.notes) |->
                        IF model.notes[i].id = model.editingId
                        THEN [model.notes[i] EXCEPT !.content = model.editContent]
                        ELSE model.notes[i]]
       IN  /\ model' = [model EXCEPT !.notes = notes, !.editingId = NoId]
           /\ NotesEffect(notes)
    /\ lastToast' = "Note updated"
    /\ PageFrame

\* the button Clear All
clearNotes ==
    /\ page = "/sticky-notes"
    /\ model.component = "StickyNotesPage"
    /\ model' = [model EXCEPT !.notes = <<>>]
    /\ NotesEffect(<<>>)
    /\ lastToast' = "Notes cleared"
    /\ PageFrame

\* ----------------------------------------------------- SnippetManagerPage

\* the form of a new snippet
Form(title, code) ==
    [title |-> title, code |-> code, language |-> "javascript", tags |-> <<>>]

\* selectedSnippetId: null, or the id of the snippet that was clicked
NoSnippetId == [null |-> TRUE, id |-> 0]
SnippetId(id) == [null |-> FALSE, id |-> id]

\* the state SnippetManagerPage is constructed with: no snippet is selected
SnippetManagerPage(snippets, newSnippet) ==
    [component |-> "SnippetManagerPage", snippets |-> snippets,
     newSnippet |-> newSnippet, selectedSnippetId |-> NoSnippetId]

\* the persist effect of SnippetManagerPage
SnippetsEffect(snippets) == setItem(SnippetsKey, JSONstringify(snippets))

setNewSnippet(title, code) ==
    /\ page = "/snippet-manager"
    /\ model.component = "SnippetManagerPage"
    /\ model' = [model EXCEPT !.newSnippet.title = title, !.newSnippet.code = code]
    /\ lastToast' = NoToast
    /\ UNCHANGED <<localStorage, storage>>
    /\ PageFrame

addSnippet ==
    /\ page = "/snippet-manager"
    /\ model.component = "SnippetManagerPage"
    /\ IF Trim(model.newSnippet.title) = <<>> \/ Trim(model.newSnippet.code) = <<>>
       THEN /\ lastToast' = "Error"
            /\ UNCHANGED <<model, localStorage, storage>>
       ELSE /\ Room(1)
            /\ LET snippets ==
                       Append(model.snippets,
                              [title |-> model.newSnippet.title,
                               code |-> model.newSnippet.code,
                               language |-> model.newSnippet.language,
                               tags |-> model.newSnippet.tags,
                               id |-> now, createdAt |-> now])
               IN  /\ model' = [model EXCEPT !.snippets = snippets,
                                             !.newSnippet = Form(<<>>, <<>>)]
                   /\ SnippetsEffect(snippets)
            /\ lastToast' = "Snippet Added"
    /\ PageFrame

\* a deleteSnippet that leaves the selection as it is
deleteSnippetKeepSelected(id) ==
    /\ page = "/snippet-manager"
    /\ model.component = "SnippetManagerPage"
    /\ LET snippets == SelectSeq(model.snippets, LAMBDA snippet : snippet.id # id)
       IN  /\ model' = [model EXCEPT !.snippets = snippets]
           /\ SnippetsEffect(snippets)
    /\ lastToast' = "Snippet Deleted"
    /\ PageFrame

deleteSnippet(id) ==
    /\ page = "/snippet-manager"
    /\ model.component = "SnippetManagerPage"
    /\ LET snippets == SelectSeq(model.snippets, LAMBDA snippet : snippet.id # id)
       IN  /\ model' = [model EXCEPT
                            !.snippets = snippets,
                            !.selectedSnippetId =
                                IF @ = SnippetId(id) THEN NoSnippetId ELSE @]
           /\ SnippetsEffect(snippets)
    /\ lastToast' = "Snippet Deleted"
    /\ PageFrame

\* a click on a snippet of the list
setSelectedSnippetId(id) ==
    /\ page = "/snippet-manager"
    /\ model.component = "SnippetManagerPage"
    /\ model' = [model EXCEPT !.selectedSnippetId = SnippetId(id)]
    /\ lastToast' = NoToast
    /\ UNCHANGED <<localStorage, storage>>
    /\ PageFrame

\* ---------------------------------------------------------- MarkdownPage

\* the text MarkdownPage shows when nothing is saved
WelcomeText == <<"# Welcome to Markdown Editor ...">>

\* the texts typed into the editor
MarkdownTexts == {WelcomeText, <<>>, <<"a">>}

MarkdownPage(markdown) == [component |-> "MarkdownPage", markdown |-> markdown]

\* a string kept in localStorage as it is, character by character
\* (the record of the empty string is not the absent record)
Chars(text) ==
    <<[kind |-> "string", value |-> ""]>>
    \o [i \in 1..Len(text) |-> [kind |-> "char", value |-> text[i]]]
TextOf(record) == [i \in 1..(Len(record) - 1) |-> record[i + 1].value]

\* the initializer of markdown: savedText || the welcome text, where null
\* and the empty string are both falsy
MarkdownInitializer(savedText) ==
    IF savedText # NoRecord /\ TextOf(savedText) # <<>>
    THEN TextOf(savedText)
    ELSE WelcomeText

setMarkdown(text) ==
    /\ page = "/markdown"
    /\ model.component = "MarkdownPage"
    /\ model' = MarkdownPage(text)
    /\ lastToast' = NoToast
    /\ UNCHANGED <<localStorage, storage>>
    /\ PageFrame

handleSave ==
    /\ page = "/markdown"
    /\ model.component = "MarkdownPage"
    /\ Room(IF getItem(MarkdownKey) = NoRecord THEN 1 ELSE 0)
    /\ setItem(MarkdownKey, Chars(model.markdown))
    /\ lastToast' = "Saved"
    /\ UNCHANGED model
    /\ PageFrame

\* ------------------------------------------------------- RegexTesterPage

\* the patterns typed into the pattern field: nothing, a blank, a group that
\* is opened and not closed, and a pattern that matches the empty text
PatternTexts == {<<>>, <<" ">>, <<"(">>, <<"a", "*">>}
\* the texts typed into the test field
InputTexts == {<<>>, <<"a", " ", "a">>}

\* error === null
NoError == "null"

\* new RegExp(pattern, flags) throws a SyntaxError for a group that is not
\* closed; every other pattern typed here is a sequence of characters, each
\* taken literally or, with a * after it, any number of times
RegExpThrows(pattern) == \E i \in 1..Len(pattern) : pattern[i] = "("

\* the pattern as the sequence of its terms
RECURSIVE Atoms(_)
Atoms(pattern) ==
    IF pattern = <<>> THEN <<>>
    ELSE IF Len(pattern) >= 2 /\ pattern[2] = "*"
    THEN <<[ch |-> pattern[1], star |-> TRUE]>>
         \o Atoms(SubSeq(pattern, 3, Len(pattern)))
    ELSE <<[ch |-> pattern[1], star |-> FALSE]>> \o Atoms(Tail(pattern))

\* how many times ch stands in text from position i on, without a gap
RECURSIVE Run(_, _, _)
Run(ch, text, i) ==
    IF i <= Len(text) /\ text[i] = ch THEN 1 + Run(ch, text, i + 1) ELSE 0

\* The position after the match of atoms that starts at position i of text,
\* 0 where there is none. A starred term takes as many characters as it can
\* and gives them back one by one while the rest does not match.
RECURSIVE MatchEnd(_, _, _)
RECURSIVE TryStar(_, _, _, _)
MatchEnd(atoms, text, i) ==
    IF atoms = <<>> THEN i
    ELSE IF Head(atoms).star
    THEN TryStar(atoms, text, i, Run(Head(atoms).ch, text, i))
    ELSE IF i <= Len(text) /\ text[i] = Head(atoms).ch
    THEN MatchEnd(Tail(atoms), text, i + 1)
    ELSE 0

TryStar(atoms, text, i, count) ==
    LET end == MatchEnd(Tail(atoms), text, i + count)
    IN  IF end # 0 THEN end
        ELSE IF count = 0 THEN 0
        ELSE TryStar(atoms, text, i, count - 1)

\* regex.exec(inputText) with the flag g and lastIndex = from - 1: the first
\* match that starts at from or later, with lastIndex set to its end; null
\* where there is none
Exec(pattern, inputText, from) ==
    LET starts == {i \in from..(Len(inputText) + 1) :
                      MatchEnd(Atoms(pattern), inputText, i) # 0}
    IN  IF starts = {} THEN [null |-> TRUE, index |-> 0, text |-> <<>>, lastIndex |-> 1]
        ELSE LET i == CHOOSE x \in starts : \A y \in starts : x <= y
                 end == MatchEnd(Atoms(pattern), inputText, i)
             IN  [null |-> FALSE, index |-> i - 1,
                  text |-> SubSeq(inputText, i, end - 1), lastIndex |-> end]

\* while ((match = regex.exec(inputText)) !== null) allMatches.push(match):
\* the matches from position from on. A match that leaves lastIndex where it
\* was is found again by every later call: the loop does not end (hangs).
RECURSIVE ExecAll(_, _, _)
ExecAll(pattern, inputText, from) ==
    LET match == Exec(pattern, inputText, from)
    IN  IF match.null THEN [matches |-> <<>>, hangs |-> FALSE]
        ELSE IF match.lastIndex = from THEN [matches |-> <<>>, hangs |-> TRUE]
        ELSE LET rest == ExecAll(pattern, inputText, match.lastIndex)
             IN  [matches |-> <<[index |-> match.index, text |-> match.text]>>
                              \o rest.matches,
                  hangs |-> rest.hangs]

\* testRegex: the results are cleared, then computed
testRegex(pattern, inputText) ==
    IF pattern = <<>> \/ inputText = <<>>
    THEN [matches |-> <<>>, error |-> NoError, hangs |-> FALSE]
    ELSE IF RegExpThrows(pattern)
    THEN [matches |-> <<>>, error |-> "Invalid regular expression", hangs |-> FALSE]
    ELSE [matches |-> ExecAll(pattern, inputText, 1).matches, error |-> NoError,
          hangs |-> ExecAll(pattern, inputText, 1).hangs]

\* the page whose script never hands control back: no event is handled
\* until the page is loaded again
Hung == [component |-> "hung"]

\* The state of RegexTesterPage after the effect that calls testRegex when
\* pattern or inputText changed; the flags stay as they are constructed.
RegexTesterPage(pattern, inputText, savedPatterns, newPatternName) ==
    IF testRegex(pattern, inputText).hangs THEN Hung
    ELSE [component |-> "RegexTesterPage", pattern |-> pattern,
          inputText |-> inputText, flags |-> Flags(TRUE, FALSE, FALSE),
          matches |-> testRegex(pattern, inputText).matches,
          error |-> testRegex(pattern, inputText).error,
          savedPatterns |-> savedPatterns, newPatternName |-> newPatternName]

\* the persist effect of RegexTesterPage
PatternsEffect(savedPatterns) == setItem(PatternsKey, JSONstringify(savedPatterns))

setPattern(text) ==
    /\ page = "/regex-tester"
    /\ model.component = "RegexTesterPage"
    /\ model' = RegexTesterPage(text, model.inputText, model.savedPatterns,
                                model.newPatternName)
    /\ lastToast' = NoToast
    /\ UNCHANGED <<localStorage, storage>>
    /\ PageFrame

setInputText(text) ==
    /\ page = "/regex-tester"
    /\ model.component = "RegexTesterPage"
    /\ model' = RegexTesterPage(model.pattern, text, model.savedPatterns,
                                model.newPatternName)
    /\ lastToast' = NoToast
    /\ UNCHANGED <<localStorage, storage>>
    /\ PageFrame

\* the button Test Regex: testRegex runs on the pattern and the text as they are
TestRegexButton ==
    /\ page = "/regex-tester"
    /\ model.component = "RegexTesterPage"
    /\ model' = RegexTesterPage(model.pattern, model.inputText,
                                model.savedPatterns, model.newPatternName)
    /\ lastToast' = NoToast
    /\ UNCHANGED <<localStorage, storage>>
    /\ PageFrame

setNewPatternName(text) ==
    /\ page = "/regex-tester"
    /\ model.component = "RegexTesterPage"
    /\ model' = [model EXCEPT !.newPatternName = text]
    /\ lastToast' = NoToast
    /\ UNCHANGED <<localStorage, storage>>
    /\ PageFrame

savePattern ==
    /\ page = "/regex-tester"
    /\ model.component = "RegexTesterPage"
    /\ IF model.pattern = <<>> \/ Trim(model.newPatternName) = <<>>
       THEN /\ lastToast' = "Error"
            /\ UNCHANGED <<model, localStorage, storage>>
       ELSE /\ Room(1)
            /\ LET savedPatterns ==
                       Append(model.savedPatterns,
                              [name |-> model.newPatternName,
                               pattern |-> model.pattern, flags |-> model.flags])
               IN  /\ model' = [model EXCEPT !.savedPatterns = savedPatterns,
                                             !.newPatternName = <<>>]
                   /\ PatternsEffect(savedPatterns)
            /\ lastToast' = "Pattern Saved"
    /\ PageFrame

deletePattern(index) ==
    /\ page = "/regex-tester"
    /\ model.component = "RegexTesterPage"
    /\ LET newPatterns == [i \in 1..(Len(model.savedPatterns) - 1) |->
                              IF i < index THEN model.savedPatterns[i]
                              ELSE model.savedPatterns[i + 1]]
       IN  /\ model' = [model EXCEPT !.savedPatterns = newPatterns]
           /\ PatternsEffect(newPatterns)
    /\ lastToast' = "Pattern Deleted"
    /\ PageFrame

\* -------------------------------------------------------- JsonViewerPage

\* One token of a JSON text: a punctuation mark, a literal, a string, a
\* number, or a run of white space (ws).
JTok(t, v) == [t |-> t, v |-> v]
Mark(t) == JTok(t, "")
Str(v) == JTok("string", v)
Num(v) == JTok("number", v)
Ws == Mark("ws")

\* a JSON value
Scalar(kind, v) == [kind |-> kind, v |-> v]
Array(items) == [kind |-> "array", items |-> items]
Object(members) == [kind |-> "object", members |-> members]
Member(key, value) == [key |-> key, value |-> value]
\* null, the value of the text null and of a state that holds no value
Null == Scalar("null", "")

\* the text after the white space at its head
RECURSIVE SkipWs(_)
SkipWs(toks) == IF toks # <<>> /\ Head(toks).t = "ws" THEN SkipWs(Tail(toks)) ELSE toks

Parsed(value, rest) == [ok |-> TRUE, value |-> value, rest |-> rest]
SyntaxError == [ok |-> FALSE, value |-> Null, rest |-> <<>>]

\* JSON.parse, by recursive descent: the value at the head of toks and the
\* tokens left, or SyntaxError
RECURSIVE ParseValue(_)
RECURSIVE ParseMembers(_, _)
RECURSIVE ParseElements(_, _)
ParseValue(toks) ==
    LET t == SkipWs(toks)
    IN  IF t = <<>> THEN SyntaxError
        ELSE IF Head(t).t = "{"
        THEN LET r == SkipWs(Tail(t))
             IN  IF r # <<>> /\ Head(r).t = "}" THEN Parsed(Object(<<>>), Tail(r))
                 ELSE ParseMembers(r, <<>>)
        ELSE IF Head(t).t = "["
        THEN LET r == SkipWs(Tail(t))
             IN  IF r # <<>> /\ Head(r).t = "]" THEN Parsed(Array(<<>>), Tail(r))
                 ELSE ParseElements(r, <<>>)
        ELSE IF Head(t).t \in {"string", "number", "true", "false", "null"}
        THEN Parsed(Scalar(Head(t).t, Head(t).v), Tail(t))
        ELSE SyntaxError

\* the members of an object after the ones in acc, up to its closing brace
ParseMembers(toks, acc) ==
    LET t == SkipWs(toks)
    IN  IF t = <<>> \/ Head(t).t # "string" THEN SyntaxError
        ELSE LET c == SkipWs(Tail(t))
             IN  IF c = <<>> \/ Head(c).t # ":" THEN SyntaxError
                 ELSE LET v == ParseValue(Tail(c))
                          r == SkipWs(v.rest)
                          members == Append(acc, Member(Head(t).v, v.value))
                      IN  IF ~v.ok \/ r = <<>> THEN SyntaxError
                          ELSE IF Head(r).t = "}"
                          THEN Parsed(Object(members), Tail(r))
                          ELSE IF Head(r).t = ","
                          THEN ParseMembers(Tail(r), members)
                          ELSE SyntaxError

\* the elements of an array after the ones in acc, up to its closing bracket
ParseElements(toks, acc) ==
    LET v == ParseValue(toks)
        r == SkipWs(v.rest)
        items == Append(acc, v.value)
    IN  IF ~v.ok \/ r = <<>> THEN SyntaxError
        ELSE IF Head(r).t = "]" THEN Parsed(Array(items), Tail(r))
        ELSE IF Head(r).t = "," THEN ParseElements(Tail(r), items)
        ELSE SyntaxError

\* JSON.parse(jsonInput): ok is FALSE where it throws
JSONparseText(text) ==
    LET r == ParseValue(text)
    IN  IF r.ok /\ SkipWs(r.rest) = <<>> THEN r ELSE SyntaxError

\* JSON.stringify(parsed, null, 2): every member and every element on a line
\* of its own; an empty object or array is written without white space
RECURSIVE Formatted(_)
Formatted(v) ==
    IF v.kind = "object"
    THEN IF v.members = <<>> THEN <<Mark("{"), Mark("}")>>
         ELSE <<Mark("{")>>
              \o Concat([i \in 1..Len(v.members) |->
                            (IF i > 1 THEN <<Mark(",")>> ELSE <<>>)
                            \o <<Ws, Str(v.members[i].key), Mark(":"), Ws>>
                            \o Formatted(v.members[i].value)])
              \o <<Ws, Mark("}")>>
    ELSE IF v.kind = "array"
    THEN IF v.items = <<>> THEN <<Mark("["), Mark("]")>>
         ELSE <<Mark("[")>>
              \o Concat([i \in 1..Len(v.items) |->
                            (IF i > 1 THEN <<Mark(",")>> ELSE <<>>)
                            \o <<Ws>> \o Formatted(v.items[i])])
              \o <<Ws, Mark("]")>>
    ELSE <<JTok(v.kind, v.v)>>

\* "key": value, as the sample text writes it
Pair(key, value) == <<Str(key), Mark(":"), Ws>> \o value

\* the sample text the page starts with
SampleJson ==
    <<Mark("{"), Ws>> \o Pair("name", <<Str("John Doe")>>)
    \o <<Mark(","), Ws>> \o Pair("age", <<Num("30")>>)
    \o <<Mark(","), Ws>> \o Pair("isActive", <<Mark("true")>>)
    \o <<Mark(","), Ws>>
    \o Pair("address",
            <<Mark("{"), Ws>> \o Pair("street", <<Str("123 Main St")>>)
            \o <<Mark(","), Ws>> \o Pair("city", <<Str("New York")>>)
            \o <<Mark(","), Ws>> \o Pair("zipCode", <<Str("10001")>>)
            \o <<Ws, Mark("}")>>)
    \o <<Mark(","), Ws>>
    \o Pair("phoneNumbers",
            <<Mark("["), Ws, Mark("{"), Ws>> \o Pair("type", <<Str("home")>>)
            \o <<Mark(","), Ws>> \o Pair("number", <<Str("212-555-1234")>>)
            \o <<Ws, Mark("}"), Mark(","), Ws, Mark("{"), Ws>>
            \o Pair("type", <<Str("work")>>)
            \o <<Mark(","), Ws>> \o Pair("number", <<Str("646-555-5678")>>)
            \o <<Ws, Mark("}"), Ws, Mark("]")>>)
    \o <<Mark(","), Ws>>
    \o Pair("skills",
            <<Mark("["), Str("programming"), Mark(","), Ws, Str("design"),
              Mark(","), Ws, Str("communication"), Mark("]")>>)
    \o <<Ws, Mark("}")>>

\* {"a-b":[],"a":{"b":[]}}: a key that holds the character -
DashJson ==
    <<Mark("{"), Str("a-b"), Mark(":"), Mark("["), Mark("]"), Mark(","),
      Str("a"), Mark(":"), Mark("{"), Str("b"), Mark(":"), Mark("["), Mark("]"),
      Mark("}"), Mark("}")>>

\* the texts pasted into the editor: the sample, an array written without
\* white space, an array with a comma too many, the number 0, and an object
\* with a - in a key
JsonTexts ==
    {SampleJson,
     <<Mark("["), Num("1"), Mark(","), Mark("null"), Mark("]")>>,
     <<Mark("["), Num("1"), Mark(","), Mark("]")>>,
     <<Num("0")>>,
     DashJson}

\* the state of JsonViewerPage with no node of the tree view expanded
JsonViewerPage(jsonInput, parsedJson, error) ==
    [component |-> "JsonViewerPage", jsonInput |-> jsonInput,
     parsedJson |-> parsedJson, error |-> error, expandedNodes |-> {}]

\* the state after a handler that does not call setExpandedNodes
JsonViewerState(jsonInput, parsedJson, error) ==
    [JsonViewerPage(jsonInput, parsedJson, error)
        EXCEPT !.expandedNodes = model.expandedNodes]

setJsonInput(text) ==
    /\ page = "/json-viewer"
    /\ model.component = "JsonViewerPage"
    /\ model' = [model EXCEPT !.jsonInput = text]
    /\ lastToast' = NoToast
    /\ UNCHANGED <<localStorage, storage>>
    /\ PageFrame

\* a formatJson whose catch leaves parsedJson as it was
formatJsonKeepParsed ==
    /\ page = "/json-viewer"
    /\ model.component = "JsonViewerPage"
    /\ LET parsed == JSONparseText(model.jsonInput)
       IN  IF parsed.ok
           THEN /\ model' = JsonViewerState(Formatted(parsed.value), parsed.value,
                                           NoError)
                /\ lastToast' = "JSON Formatted"
           ELSE /\ model' = JsonViewerState(model.jsonInput, model.parsedJson,
                                           "Invalid JSON")
                /\ lastToast' = "Invalid JSON"
    /\ UNCHANGED <<localStorage, storage>>
    /\ PageFrame

formatJson ==
    /\ page = "/json-viewer"
    /\ model.component = "JsonViewerPage"
    /\ LET parsed == JSONparseText(model.jsonInput)
       IN  IF parsed.ok
           THEN /\ model' = JsonViewerState(Formatted(parsed.value), parsed.value,
                                           NoError)
                /\ lastToast' = "JSON Formatted"
           ELSE /\ model' = JsonViewerState(model.jsonInput, Null, "Invalid JSON")
                /\ lastToast' = "Invalid JSON"
    /\ UNCHANGED <<localStorage, storage>>
    /\ PageFrame

\* a parseJson that lets the exception of JSON.parse go
parseJsonUncaught ==
    /\ page = "/json-viewer"
    /\ model.component = "JsonViewerPage"
    /\ LET parsed == JSONparseText(model.jsonInput)
       IN  IF parsed.ok
           THEN /\ model' = JsonViewerState(model.jsonInput, parsed.value, NoError)
                /\ lastToast' = "JSON Parsed"
           ELSE /\ model' = Crashed
                /\ lastToast' = NoToast
    /\ UNCHANGED <<localStorage, storage>>
    /\ PageFrame

parseJson ==
    /\ page = "/json-viewer"
    /\ model.component = "JsonViewerPage"
    /\ LET parsed == JSONparseText(model.jsonInput)
       IN  IF parsed.ok
           THEN /\ model' = JsonViewerState(model.jsonInput, parsed.value, NoError)
                /\ lastToast' = "JSON Parsed"
           ELSE /\ model' = JsonViewerState(model.jsonInput, Null, "Invalid JSON")
                /\ lastToast' = "Invalid JSON"
    /\ UNCHANGED <<localStorage, storage>>
    /\ PageFrame

resetJson ==
    /\ page = "/json-viewer"
    /\ model.component = "JsonViewerPage"
    /\ model' = JsonViewerPage(<<>>, Null, NoError)
    /\ lastToast' = "Reset"
    /\ UNCHANGED <<localStorage, storage>>
    /\ PageFrame

loadSample ==
    /\ page = "/json-viewer"
    /\ model.component = "JsonViewerPage"
    /\ LET parsed == JSONparseText(SampleJson)
       IN  model' = IF parsed.ok
                    THEN JsonViewerState(SampleJson, parsed.value, NoError)
                    ELSE [model EXCEPT !.jsonInput = SampleJson]
    /\ lastToast' = "Sample Loaded"
    /\ UNCHANGED <<localStorage, storage>>
    /\ PageFrame

\* what JavaScript takes a parsed value for in a condition: null, false, 0
\* and the empty string are falsy, every object and array is truthy
Truthy(value) ==
    CASE value.kind \in {"null", "false"} -> FALSE
      [] value.kind = "true" -> TRUE
      [] value.kind = "number" -> value.v \notin {"0", "-0"}
      [] value.kind = "string" -> value.v # ""
      [] OTHER -> TRUE

\* what the tree view panel renders: the error, the tree of parsedJson, or
\* the placeholder that asks for valid JSON
TreeView(m) ==
    IF m.error # NoError THEN "error"
    ELSE IF Truthy(m.parsedJson) THEN "tree"
    ELSE "placeholder"

\* the icon beside the title of the panel
Indicator(m) ==
    IF m.error # NoError THEN "XCircle"
    ELSE IF Truthy(m.parsedJson) THEN "CheckCircle2"
    ELSE "none"

\* the characters of an object key: a key without - is one piece
KeyChars(key) == IF key = "a-b" THEN <<"a", "-", "b">> ELSE <<key>>

\* the path renderJsonValue is called with for the tree
RootPath == <<"root">>
\* `${path}-${key}` and `${path}-${index}`
ChildPath(path, key) == path \o <<"-">> \o key

\* the children of an object or an array, each with the piece of the path
\* that leads to it
Children(value) ==
    IF value.kind = "object"
    THEN [i \in 1..Len(value.members) |->
             [key |-> KeyChars(value.members[i].key), value |-> value.members[i].value]]
    ELSE IF value.kind = "array"
    THEN [i \in 1..Len(value.items) |->
             [key |-> <<Digits[i]>>, value |-> value.items[i]]]
    ELSE <<>>

\* The objects and arrays renderJsonValue(value, path) draws a toggle for,
\* each with the path it is drawn with and the place pos it has in the tree.
\* With all = TRUE the children of every node are drawn, otherwise those of
\* the nodes whose path is in expanded.
RECURSIVE renderJsonValue(_, _, _, _, _)
renderJsonValue(value, path, pos, expanded, all) ==
    IF value.kind \notin {"object", "array"} THEN {}
    ELSE {[path |-> path, pos |-> pos]}
         \cup (IF all \/ path \in expanded
                THEN UNION {renderJsonValue(Children(value)[i].value,
                                            ChildPath(path, Children(value)[i].key),
                                            Append(pos, i), expanded, all) :
                               i \in 1..Len(Children(value))}
                ELSE {})

toggleNode(path) ==
    /\ page = "/json-viewer"
    /\ model.component = "JsonViewerPage"
    /\ model' = [model EXCEPT !.expandedNodes =
                     IF path \in @ THEN @ \ {path} ELSE @ \cup {path}]
    /\ lastToast' = NoToast
    /\ UNCHANGED <<localStorage, storage>>
    /\ PageFrame

\* ------------------------------------------------------------ the router

\* the component of the mind map is unmounted
MindMapUnmounted ==
    /\ rootNode' = DefaultRoot
    /\ editingNodeId' = NullId
    /\ editNodeContent' = ""
    /\ mounted' = FALSE

\* what loading a page other than the mind map leaves alone or unmounts
OpenFrame ==
    /\ MindMapUnmounted
    /\ lastToast' = NoToast
    /\ UNCHANGED <<now, canvas, pomodoroState>>

\* The page of path p is loaded. Its component is constructed from the
\* record, where JSON.parse can throw, and its effects run once.
OpenTasks ==
    /\ page' = "/tasks"
    /\ LET tasks == Saved(TasksKey, <<>>)
       IN  IF tasks.ok
           THEN /\ Room(IF getItem(TasksKey) = NoRecord THEN 1 ELSE 0)
                /\ model' = TasksPage(tasks.value, <<>>)
                /\ TasksEffect(tasks.value)
           ELSE /\ model' = Crashed
                /\ UNCHANGED <<localStorage, storage>>
    /\ OpenFrame

OpenCalendar ==
    /\ page' = "/calendar"
    /\ LET tasks == Saved(CalendarKey, <<>>)
       IN  model' = IF tasks.ok THEN CalendarPage(tasks.value, <<>>, DateOf(1))
                    ELSE Crashed
    /\ UNCHANGED <<localStorage, storage>>
    /\ OpenFrame

OpenStickyNotes ==
    /\ page' = "/sticky-notes"
    /\ LET notes == Saved(StickyNotesKey, <<>>)
       IN  IF notes.ok
           THEN /\ Room(IF getItem(StickyNotesKey) = NoRecord THEN 1 ELSE 0)
                /\ model' = StickyNotesPage(notes.value, NoId, <<>>)
                /\ NotesEffect(notes.value)
           ELSE /\ model' = Crashed
                /\ UNCHANGED <<localStorage, storage>>
    /\ OpenFrame

OpenSnippetManager ==
    /\ page' = "/snippet-manager"
    /\ LET snippets == Saved(SnippetsKey, <<>>)
       IN  IF snippets.ok
           THEN /\ Room(IF getItem(SnippetsKey) = NoRecord THEN 1 ELSE 0)
                /\ model' = SnippetManagerPage(snippets.value, Form(<<>>, <<>>))
                /\ SnippetsEffect(snippets.value)
           ELSE /\ model' = Crashed
                /\ UNCHANGED <<localStorage, storage>>
    /\ OpenFrame

OpenRegexTester ==
    /\ page' = "/regex-tester"
    /\ LET saved == Saved(PatternsKey, DefaultPatterns)
       IN  IF saved.ok
           THEN /\ Room(IF getItem(PatternsKey) = NoRecord THEN 1 ELSE 0)
                /\ model' = RegexTesterPage(<<>>, <<>>, saved.value, <<>>)
                /\ PatternsEffect(saved.value)
           ELSE /\ model' = Crashed
                /\ UNCHANGED <<localStorage, storage>>
    /\ OpenFrame

\* savedText || the welcome text
OpenMarkdown ==
    /\ page' = "/markdown"
    /\ model' = MarkdownPage(MarkdownInitializer(getItem(MarkdownKey)))
    /\ UNCHANGED <<localStorage, storage>>
    /\ OpenFrame

OpenJsonViewer ==
    /\ page' = "/json-viewer"
    /\ model' = JsonViewerPage(SampleJson, Null, NoError)
    /\ UNCHANGED <<localStorage, storage>>
    /\ OpenFrame

\* JSON.parse accepts the record of the mind map
ParsesAsNode(saved) ==
    /\ Len(saved) >= 5
    /\ Head(saved).kind = "{"
    /\ saved[Len(saved)].kind = "}"

OpenMindMap ==
    /\ page' = "/mind-map"
    /\ IF storage = NoRecord \/ ParsesAsNode(storage)
       THEN /\ Room(IF storage = NoRecord THEN 1 ELSE 0)
            /\ model' = [component |-> "MindMapPage"]
            /\ Effects(InitialRoot(storage))
            /\ mounted' = TRUE
       ELSE /\ model' = Crashed
            /\ rootNode' = DefaultRoot
            /\ mounted' = FALSE
            /\ UNCHANGED storage
    /\ editingNodeId' = NullId
    /\ editNodeContent' = ""
    /\ lastToast' = NoToast
    /\ UNCHANGED <<localStorage, now, canvas, pomodoroState>>

\* time passes: Date.now() returns a later value
ToolsTick ==
    /\ now < MaxClock
    /\ now' = now + 1
    /\ UNCHANGED <<rootNode, editingNodeId, editNodeContent, storage, canvas,
                   mounted, toolsState, pomodoroState>>

\* the keys whose records are read by JSON.parse
JsonKeys == (Keys \ {MarkdownKey}) \cup {MindMapKey}

\* The application is loaded at the dashboard. localStorage is empty, or one
\* record that JSON.parse reads holds a text that is not JSON.
ToolsInit ==
    /\ page = "/"
    /\ model = NoModel
    /\ lastToast = NoToast
    /\ \E bad \in SUBSET JsonKeys :
          /\ Cardinality(bad) <= 1
          /\ localStorage = [k \in Keys |-> IF k \in bad THEN Malformed ELSE NoRecord]
          /\ storage = IF MindMapKey \in bad THEN Malformed ELSE NoRecord
    /\ rootNode = DefaultRoot
    /\ editingNodeId = NullId
    /\ editNodeContent = ""
    /\ now = 1
    /\ canvas = <<800, 600>>
    /\ mounted = FALSE
    /\ PomodoroConstructed

TasksTitle == \E text \in Texts : TasksTitleChange(text)
TasksToggle ==
    /\ model.component = "TasksPage"
    /\ \E i \in 1..Len(model.tasks) : toggleTaskCompletion(model.tasks[i].id)
TasksDelete ==
    /\ model.component = "TasksPage"
    /\ \E i \in 1..Len(model.tasks) : TasksDeleteTask(model.tasks[i].id)
CalendarTitle == \E text \in Texts : CalendarTitleChange(text)
CalendarDate == \E day \in Days : setDate(day)
CalendarDelete ==
    /\ model.component = "CalendarPage"
    /\ \E i \in 1..Len(model.tasks) : CalendarDeleteTask(model.tasks[i].id)
CalendarDrop ==
    /\ model.component = "CalendarPage"
    /\ \E i \in 1..Len(model.tasks), day \in Days : handleDrop(model.tasks[i].id, day)
NotesDelete ==
    /\ model.component = "StickyNotesPage"
    /\ \E i \in 1..Len(model.notes) : deleteNote(model.notes[i].id)
NotesEdit ==
    /\ model.component = "StickyNotesPage"
    /\ \E i \in 1..Len(model.notes) : startEditing(model.notes[i])
NotesType == \E text \in Texts : setEditContent(text)
SnippetType == \E title \in Texts, code \in Texts : setNewSnippet(title, code)
SnippetDelete ==
    /\ model.component = "SnippetManagerPage"
    /\ \E i \in 1..Len(model.snippets) : deleteSnippet(model.snippets[i].id)
SnippetSelect ==
    /\ model.component = "SnippetManagerPage"
    /\ \E i \in 1..Len(model.snippets) : setSelectedSnippetId(model.snippets[i].id)
RegexPattern == \E text \in PatternTexts : setPattern(text)
RegexInput == \E text \in InputTexts : setInputText(text)
RegexName == \E text \in Texts : setNewPatternName(text)
\* the patterns deleted are the ones saved after the three the page starts with
RegexDelete ==
    /\ model.component = "RegexTesterPage"
    /\ \E index \in (Len(DefaultPatterns) + 1)..Len(model.savedPatterns) :
          deletePattern(index)
\* + on a node, while there is room for one more node
MindMapAddChild == Room(1) /\ AddChild
MarkdownType == \E text \in MarkdownTexts : setMarkdown(text)
JsonPaste == \E text \in JsonTexts : setJsonInput(text)
\* a click on the toggle of a node that the tree view shows
JsonToggle ==
    /\ model.component = "JsonViewerPage"
    /\ TreeView(model) = "tree"
    /\ \E node \in renderJsonValue(model.parsedJson, RootPath, <<>>,
                                     model.expandedNodes, FALSE) :
          toggleNode(node.path)

ToolsNext ==
    \/ OpenTasks
    \/ OpenCalendar
    \/ OpenStickyNotes
    \/ OpenSnippetManager
    \/ OpenRegexTester
    \/ OpenMarkdown
    \/ OpenJsonViewer
    \/ OpenMindMap
    \/ ToolsTick
    \/ TasksTitle
    \/ TasksAddTask
    \/ TasksToggle
    \/ TasksDelete
    \/ CalendarTitle
    \/ CalendarDate
    \/ CalendarAddTask
    \/ CalendarDelete
    \/ CalendarDrop
    \/ addNote
    \/ NotesDelete
    \/ NotesEdit
    \/ NotesType
    \/ saveNote
    \/ clearNotes
    \/ SnippetType
    \/ addSnippet
    \/ SnippetDelete
    \/ SnippetSelect
    \/ TestRegexButton
    \/ RegexPattern
    \/ RegexInput
    \/ RegexName
    \/ savePattern
    \/ RegexDelete
    \/ MarkdownType
    \/ handleSave
    \/ JsonPaste
    \/ formatJson
    \/ parseJson
    \/ resetJson
    \/ loadSample
    \/ LayoutEffect
    \/ MindMapAddChild
    \/ Delete
    \/ resetMindMap

ToolsSpec == ToolsInit /\ [][ToolsNext]_vars

\* ------------------------------------------------ the JSON viewer alone

\* the JSON viewer is open as it is constructed, with nothing stored
JsonViewerInit ==
    /\ page = "/json-viewer"
    /\ model = JsonViewerPage(SampleJson, Null, NoError)
    /\ localStorage = [k \in Keys |-> NoRecord]
    /\ lastToast = NoToast
    /\ storage = NoRecord
    /\ rootNode = DefaultRoot
    /\ editingNodeId = NullId
    /\ editNodeContent = ""
    /\ now = 1
    /\ canvas = <<800, 600>>
    /\ mounted = FALSE
    /\ PomodoroConstructed

JsonViewerNext ==
    \/ JsonPaste
    \/ formatJson
    \/ parseJson
    \/ resetJson
    \/ loadSample
    \/ JsonToggle

JsonViewerSpec == JsonViewerInit /\ [][JsonViewerNext]_vars

\* ----------------------------------------------------- long task lists

\* the longest task list a saved record holds
MaxTasks == 200

\* a list of n tasks of which the first c are completed
ManyTasks(n, c) ==
    [i \in 1..n |-> [id |-> i, title |-> <<"a">>, priority |-> "medium",
                     completed |-> i <= c]]

\* The task list is open on a saved list, empty or long, with a title typed
\* into the form; Date.now() is later than every identifier of the list.
ProgressInit ==
    /\ page = "/tasks"
    /\ \E n \in {0, MaxTasks, MaxTasks + 1} : \E c \in 0..n :
          /\ model = TasksPage(ManyTasks(n, c), <<"a">>)
          /\ localStorage = [k \in Keys |-> IF k = TasksKey
                                             THEN JSONstringify(ManyTasks(n, c))
                                             ELSE NoRecord]
    /\ lastToast = NoToast
    /\ storage = NoRecord
    /\ rootNode = DefaultRoot
    /\ editingNodeId = NullId
    /\ editNodeContent = ""
    /\ now = MaxTasks + 2
    /\ canvas = <<800, 600>>
    /\ mounted = FALSE
    /\ PomodoroConstructed

\* the check box of the last completed task or of the first open one
ProgressToggle ==
    /\ model.component = "TasksPage"
    /\ LET done == Len(SelectSeq(model.tasks, LAMBDA task : task.completed))
       IN  \E i \in {done, done + 1} \cap (1..Len(model.tasks)) :
              toggleTaskCompletion(model.tasks[i].id)

\* the delete button of the last task
ProgressDelete ==
    /\ model.component = "TasksPage"
    /\ model.tasks # <<>>
    /\ TasksDeleteTask(model.tasks[Len(model.tasks)].id)

ProgressNext ==
    \/ TasksAddTask
    \/ ProgressToggle
    \/ ProgressDelete

ProgressSpec == ProgressInit /\ [][ProgressNext]_vars

\* ------------------------------------------------------------------ C17

\* C17: the nodes of the tree have pairwise distinct identifiers, whatever
\* clock values the addChildNode calls read.
C17_DistinctIds ==
    \A i, j \in 1..Count(rootNode) :
        Nodes(rootNode)[i].id = Nodes(rootNode)[j].id => i = j

\* ------------------------------------------------------------------ C18

\* the configured duration, in seconds, of the mode b
FullTime(b) == (IF b THEN breakDuration ELSE workDuration) * SecondsPerMinute

\* C18: switchMode, from the button of the page or from the Switch button
\* of a toast, toggles isBreak, sets timeLeft to the duration now configured
\* for the new mode and makes the timer idle.
C18_SwitchUsesCurrent ==
    [][(SwitchButton \/ SwitchFromToast) =>
          /\ isBreak' = ~isBreak
          /\ timeLeft' = (IF isBreak' THEN breakDuration ELSE workDuration)
                         * SecondsPerMinute
          /\ timerState' = IDLE]_vars

\* ------------------------------------------------------------------ C19

\* C19: no interval is set while the timer is paused, so that no second that
\* passes changes timeLeft; pauseTimer changes timerState alone; Resume
\* leaves timeLeft as the pause left it, and the seconds that follow count
\* down from it one by one.
C19_PauseResume ==
    [][/\ timerState = PAUSED => ~interval.set
       /\ timerState' = PAUSED => ~interval'.set
       /\ pauseTimer =>
             /\ timerState' = PAUSED
             /\ UNCHANGED <<timeLeft, isBreak, workDuration, breakDuration>>
       /\ (timerState = PAUSED /\ startTimer) =>
             /\ timerState' = RUNNING
             /\ timeLeft' = timeLeft
             /\ interval'.set
       /\ (Second /\ timeLeft > 1) =>
             /\ timeLeft' = timeLeft - 1
             /\ timerState' = RUNNING]_vars

\* a countdown was paused on its way
C19_Witness ==
    /\ timerState = PAUSED
    /\ 0 < timeLeft
    /\ timeLeft < FullTime(isBreak)

\* ------------------------------------------------------------------ C20

\* C20: resetTimer makes the timer idle with the full time of the current
\* mode, and leaves the mode and both durations as they are.
C20_ResetRestarts ==
    [][resetTimer =>
          /\ timerState' = IDLE
          /\ timeLeft' = IF isBreak THEN breakDuration * SecondsPerMinute
                                    ELSE workDuration * SecondsPerMinute
          /\ UNCHANGED <<isBreak, workDuration, breakDuration>>]_vars

\* a break is idle again with its full time, which is not that of a work
\* session, after a toast was shown
C20_Witness ==
    /\ timerState = IDLE
    /\ isBreak
    /\ notification.set
    /\ timeLeft = breakDuration * SecondsPerMinute
    /\ timeLeft # workDuration * SecondsPerMinute

\* ======================================== what the claims on the tools read

\* the pages whose component is constructed by JSON.parse of a record
JsonPages ==
    {"/tasks", "/calendar", "/sticky-notes", "/snippet-manager",
     "/regex-tester", "/mind-map"}

\* the key of the record the page of path p keeps
KeyOf(p) ==
    CASE p = "/tasks" -> TasksKey
      [] p = "/calendar" -> CalendarKey
      [] p = "/sticky-notes" -> StickyNotesKey
      [] p = "/snippet-manager" -> SnippetsKey
      [] p = "/regex-tester" -> PatternsKey
      [] p = "/markdown" -> MarkdownKey
      [] p = "/mind-map" -> MindMapKey

\* the model the page of path p is constructed with when it has no record
DefaultModel(p) ==
    CASE p = "/tasks" -> TasksPage(<<>>, <<>>)
      [] p = "/calendar" -> CalendarPage(<<>>, <<>>, DateOf(1))
      [] p = "/sticky-notes" -> StickyNotesPage(<<>>, NoId, <<>>)
      [] p = "/snippet-manager" -> SnippetManagerPage(<<>>, Form(<<>>, <<>>))
      [] p = "/regex-tester" -> RegexTesterPage(<<>>, <<>>, DefaultPatterns, <<>>)
      [] p = "/mind-map" -> [component |-> "MindMapPage"]

\* the record of the page of path p is there and JSON.parse throws on it
Unreadable(p) ==
    /\ getItem(KeyOf(p)) # NoRecord
    /\ IF p = "/mind-map" THEN ~ParsesAsNode(getItem(KeyOf(p)))
       ELSE ~JSONparse(getItem(KeyOf(p))).ok

\* ------------------------------------------------------------------ C11

\* C11: when the page of a tool is loaded and its stored record is not
\* JSON, the tool starts with its default model and is not aborted.
C11_MalformedGivesDefault ==
    [][\A p \in JsonPages :
          (Unreadable(p) /\ page # p /\ page' = p)
              => /\ model' = DefaultModel(p)
                 /\ (p = "/mind-map" => Plain(rootNode') = Plain(DefaultRoot))]_vars

\* ------------------------------------------------------------------ C12

\* C12: a parseJson or formatJson on a text that is not JSON ends inside the
\* handler with the page still mounted, an error message set and the toast
\* Invalid JSON; a testRegex on a pattern that RegExp rejects ends with the
\* page still mounted and an error message set.
C12_ParseFailureCaught ==
    [][/\ ((parseJson \/ formatJson) /\ ~JSONparseText(model.jsonInput).ok)
              => /\ model'.component = "JsonViewerPage"
                 /\ model'.error # NoError
                 /\ lastToast' = "Invalid JSON"
       /\ ((RegexPattern \/ RegexInput)
              /\ model'.component = "RegexTesterPage"
              /\ model'.inputText # <<>>
              /\ RegExpThrows(model'.pattern))
              => model'.error # NoError]_vars

\* a parse of the pasted text has failed and the page shows the error
C12_Witness ==
    /\ model.component = "JsonViewerPage"
    /\ ~JSONparseText(model.jsonInput).ok
    /\ model.error # NoError
    /\ lastToast = "Invalid JSON"

\* ------------------------------------------------------------------ C13

\* a parseJson or formatJson on a text JSON.parse rejects
FailedParse == (parseJson \/ formatJson) /\ ~JSONparseText(model.jsonInput).ok

\* a testRegex, from the button or from the effect, that ends with an error
FailedTestRegex ==
    /\ TestRegexButton \/ RegexPattern \/ RegexInput
    /\ model'.component = "RegexTesterPage"
    /\ model'.error # NoError

\* an add or a save that ends with the toast Error
RejectedAdd ==
    /\ TasksAddTask \/ CalendarAddTask \/ addSnippet \/ savePattern
    /\ lastToast' = "Error"

\* C13 as the specification states it: an operation that fails leaves the
\* model as it was: a failed parseJson or formatJson keeps the parsed value
\* and the text, a testRegex on an invalid pattern keeps the matches, a
\* rejected add, save or delete keeps the list or the tree.
C13_FailureKeepsModel ==
    [][/\ FailedParse => /\ model'.parsedJson = model.parsedJson
                         /\ model'.jsonInput = model.jsonInput
       /\ FailedTestRegex => model'.matches = model.matches
       /\ RejectedAdd => UNCHANGED <<model, localStorage, storage>>
       /\ deleteNode(RootId) => UNCHANGED <<rootNode, storage>>]_vars

\* C13, amended: a failed parseJson or formatJson keeps the text, sets
\* parsedJson to null and sets the error; a testRegex on an invalid pattern
\* empties the matches and sets the error; a rejected add or save keeps the
\* list, the form and the record; deleting the root keeps the tree and its
\* record; no failure writes a record, and the same operation repeated on
\* the state a failure left changes nothing.
C13_FailureEffect ==
    [][/\ FailedParse
              => /\ model' = JsonViewerState(model.jsonInput, Null, "Invalid JSON")
                 /\ UNCHANGED <<localStorage, storage>>
                 /\ lastToast = "Invalid JSON" => UNCHANGED vars
       /\ FailedTestRegex
              => /\ model'.matches = <<>>
                 /\ model'.savedPatterns = model.savedPatterns
                 /\ UNCHANGED <<localStorage, storage>>
                 /\ (TestRegexButton /\ model.error # NoError) => model' = model
       /\ RejectedAdd
              => /\ UNCHANGED <<model, localStorage, storage>>
                 /\ lastToast = "Error" => UNCHANGED vars
       /\ deleteNode(RootId) => UNCHANGED <<rootNode, storage>>]_vars

\* a parse has failed on the page: the value parsed before is gone, the
\* text that was rejected is still in the editor
C13_Witness ==
    /\ model.component = "JsonViewerPage"
    /\ lastToast = "Invalid JSON"
    /\ model.parsedJson = Null
    /\ model.jsonInput \in JsonTexts

\* ------------------------------------------------------------------ C14

\* the handler returns after the toast Error: no state is set
Rejected ==
    /\ lastToast' = "Error"
    /\ UNCHANGED <<model, localStorage, storage>>

\* the field is empty or holds white space only
Blank(text) == Trim(text) = <<>>

\* C14 as the specification states it: an add or a save with a required
\* field that is empty or holds white space only (the title of a task, the
\* title or the code of a snippet, the pattern or the name of a pattern to
\* save) is rejected: list, record and form are unchanged and a warning is
\* shown.
C14_BlankFieldRejected ==
    [][/\ (TasksAddTask /\ Blank(model.newTaskTitle)) => Rejected
       /\ (CalendarAddTask /\ Blank(model.newTaskTitle)) => Rejected
       /\ (addSnippet /\ (Blank(model.newSnippet.title) \/ Blank(model.newSnippet.code)))
              => Rejected
       /\ (savePattern /\ (Blank(model.pattern) \/ Blank(model.newPatternName)))
              => Rejected]_vars

\* C14, amended: the same, except that savePattern rejects the pattern only
\* when it is the empty string; a pattern of white space is saved.
C14_EmptyFieldRejected ==
    [][/\ (TasksAddTask /\ Blank(model.newTaskTitle)) => Rejected
       /\ (CalendarAddTask /\ Blank(model.newTaskTitle)) => Rejected
       /\ (addSnippet /\ (Blank(model.newSnippet.title) \/ Blank(model.newSnippet.code)))
              => Rejected
       /\ (savePattern /\ (model.pattern = <<>> \/ Blank(model.newPatternName)))
              => Rejected
       /\ (savePattern /\ model.pattern # <<>> /\ ~Blank(model.newPatternName))
              => /\ lastToast' = "Pattern Saved"
                 /\ model'.savedPatterns[Len(model'.savedPatterns)].pattern
                        = model.pattern]_vars

\* addTask has refused a title of white space, which is still in the field
C14_Witness ==
    /\ model.component = "TasksPage"
    /\ lastToast = "Error"
    /\ model.newTaskTitle # <<>>
    /\ Blank(model.newTaskTitle)

\* ------------------------------------------------------------------ C15

\* the components that keep a list in a record
ListComponents ==
    {"TasksPage", "CalendarPage", "StickyNotesPage", "SnippetManagerPage",
     "RegexTesterPage"}

\* the list the component m keeps, and the key of its record
ListOf(m) ==
    CASE m.component = "TasksPage" -> m.tasks
      [] m.component = "CalendarPage" -> m.tasks
      [] m.component = "StickyNotesPage" -> m.notes
      [] m.component = "SnippetManagerPage" -> m.snippets
      [] m.component = "RegexTesterPage" -> m.savedPatterns
KeyFor(m) ==
    CASE m.component = "TasksPage" -> TasksKey
      [] m.component = "CalendarPage" -> CalendarKey
      [] m.component = "StickyNotesPage" -> StickyNotesKey
      [] m.component = "SnippetManagerPage" -> SnippetsKey
      [] m.component = "RegexTesterPage" -> PatternsKey

\* an event of the page that is open has changed the list it keeps
ListChanged ==
    /\ model.component \in ListComponents
    /\ model'.component = model.component
    /\ page' = page
    /\ ListOf(model') # ListOf(model)

\* an event of MarkdownPage has changed the text
TextChanged ==
    /\ model.component = "MarkdownPage"
    /\ model'.component = "MarkdownPage"
    /\ page' = page
    /\ model'.markdown # model.markdown

\* an event of the mind map has changed the tree
TreeChanged == mounted /\ mounted' /\ rootNode' # rootNode

\* C15 as the specification states it: after an event that changes the
\* model of a tool that keeps a record (a list, the markdown text, the tree
\* of the mind map), the record is the serialization of the new model.
C15_RecordFollowsModel ==
    [][/\ ListChanged => localStorage'[KeyFor(model')] = JSONstringify(ListOf(model'))
       /\ TextChanged => localStorage'[MarkdownKey] = Chars(model'.markdown)
       /\ TreeChanged => storage' = Stringify(rootNode')]_vars

\* C15, amended: after an event that changes the list of a page the record
\* is JSON.stringify of the new list, and the pages whose effect runs on
\* mount hold that record from the moment they are open; the markdown text
\* is written by handleSave only, typing leaves the record as it is; after
\* an event of the mind map the record holds a tree with the identifiers,
\* contents and children of the tree in memory, written before the layout;
\* the pass of the effects that follows writes the positions too.
C15_RecordFollowsList ==
    [][/\ ListChanged => localStorage'[KeyFor(model')] = JSONstringify(ListOf(model'))
       /\ (model'.component \in ListComponents \ {"CalendarPage"})
              => localStorage'[KeyFor(model')] = JSONstringify(ListOf(model'))
       /\ model'.component = "CalendarPage"
              => \/ localStorage'[CalendarKey] = JSONstringify(model'.tasks)
                 \/ localStorage'[CalendarKey] = NoRecord /\ model'.tasks = <<>>
       /\ TextChanged => UNCHANGED localStorage
       /\ handleSave => localStorage'[MarkdownKey] = Chars(model.markdown)
       /\ mounted' => Plain(Parse(storage')) = Plain(rootNode')
       /\ LayoutEffect => storage' = Stringify(rootNode')]_vars

\* a task has been added and the record of TasksPage holds the new list
C15_Witness ==
    /\ model.component = "TasksPage"
    /\ model.tasks # <<>>
    /\ localStorage[TasksKey] = JSONstringify(model.tasks)

\* ------------------------------------------------------------------ C16

\* the keys the tools use, one a tool
KeyList ==
    <<TasksKey, StickyNotesKey, MarkdownKey, CalendarKey, MindMapKey,
      SnippetsKey, PatternsKey>>
KeysDistinct ==
    \A i, j \in 1..Len(KeyList) : KeyList[i] = KeyList[j] => i = j

\* the pages of the tools that keep a record
RecordPages == JsonPages \cup {"/markdown"}

\* C16: the storage keys of the tools are pairwise distinct, and a step of
\* the tool that is open (loading it included) leaves the record of every
\* other tool as it was, and with it the model that tool is constructed
\* from; the state of the Pomodoro timer is left alone, an event of another
\* page leaves the tree of the mind map alone, and an event of the mind map
\* leaves the state of the page component alone.
C16_NoSharedState ==
    [][/\ KeysDistinct
       /\ \A q \in RecordPages \ {page'} : getItem(KeyOf(q))' = getItem(KeyOf(q))
       /\ UNCHANGED pomodoroState
       /\ (page' = page /\ page # "/mind-map")
              => UNCHANGED <<rootNode, editingNodeId, editNodeContent>>
       /\ (page' = page /\ page = "/mind-map") => UNCHANGED model]_vars

\* the notes have been cleared, which writes their record, while the task
\* list has a record of its own
C16_Witness ==
    /\ page = "/sticky-notes"
    /\ lastToast = "Notes cleared"
    /\ localStorage[StickyNotesKey] = JSONstringify(<<>>)
    /\ localStorage[TasksKey] = JSONstringify(<<>>)

\* ------------------------------------------------------------------ C21

\* the work session the README promises, in minutes
TraditionalWorkDuration == 25

\* C21: the state PomodoroPage is constructed with is work mode, IDLE, a
\* work session of 25 minutes and a break of 5 minutes, with timeLeft the
\* 25 minutes in seconds. (A formula of the first state alone: the box adds
\* nothing.)
C21_FirstRender ==
    /\ ~isBreak
    /\ timerState = IDLE
    /\ workDuration = TraditionalWorkDuration
    /\ breakDuration = 5
    /\ timeLeft = TraditionalWorkDuration * SecondsPerMinute
    /\ timeLeft = workDuration * SecondsPerMinute
    /\ [][TRUE]_vars

\* ------------------------------------------------------------------ C22

\* C22: whatever text handleSave wrote, the empty one too, the editor
\* constructed from the record starts with that text; the welcome text
\* is what it starts with only when there is no record.
C22_SaveRoundTrip ==
    /\ localStorage[MarkdownKey] # NoRecord
           => MarkdownInitializer(localStorage[MarkdownKey])
                  = TextOf(localStorage[MarkdownKey])
    /\ (MarkdownInitializer(localStorage[MarkdownKey]) = WelcomeText)
           => \/ localStorage[MarkdownKey] = NoRecord
              \/ TextOf(localStorage[MarkdownKey]) = WelcomeText

\* ------------------------------------------------------------------ C23

\* C23: after parseJson or formatJson on a text that is valid JSON, a scalar
\* included, the panel shows the tree of the value with the valid indicator,
\* not the placeholder and not an error.
C23_ValidJsonShown ==
    [][((parseJson \/ formatJson) /\ JSONparseText(model.jsonInput).ok)
           => /\ TreeView(model') = "tree"
              /\ Indicator(model') = "CheckCircle2"
              /\ model'.parsedJson = JSONparseText(model.jsonInput).value]_vars

\* ------------------------------------------------------------------ C24

\* another pass of the effects would change nothing: the tree is laid out
\* for the canvas as it is and the record holds it
Settled ==
    /\ mounted
    /\ Canon(layoutMindMap(rootNode, canvas)) = rootNode
    /\ storage = Stringify(rootNode)

\* no pass of the effects is pending
Quiescent == ~LayoutTriggered

\* C24: the passes of the layout effect come to an end. The passes are
\* deterministic while the user does nothing, so they end only if the state
\* that a further pass leaves as it is triggers no further pass: there no
\* layout run, no setRootNode and no write of the record is pending.
C24_LayoutQuiescence == Settled => Quiescent

\* ------------------------------------------------------------------ C25

\* C25: a tick of the running timer takes one second off timeLeft while a
\* second is left; the tick that brings timeLeft to 0 makes the timer
\* FINISHED, shows one notification (that of the interval's render) and leaves
\* no interval behind, so that no later tick changes timeLeft; timeLeft is
\* never negative.
C25_Countdown ==
    [][/\ Second =>
            /\ timerState = RUNNING
            /\ timeLeft >= 1 => timeLeft' = timeLeft - 1
            /\ timeLeft' >= 0
            /\ (timeLeft' = 0) = (timerState' = FINISHED)
            /\ timeLeft' > 0 => UNCHANGED <<timerState, notification, interval>>
            /\ timeLeft' = 0 => notification' = interval /\ notification'.set
       /\ timerState' = FINISHED => ~interval'.set
       /\ ~interval.set => ~Second]_vars

\* the countdown has come to its end: the timer is FINISHED at 0 with its
\* notification on the screen and no interval is set
C25_Witness ==
    /\ timerState = FINISHED
    /\ timeLeft = 0
    /\ notification.set
    /\ ~interval.set

\* ------------------------------------------------------------------ C26

\* the configured duration of the current mode, in minutes
CurrentDuration == IF isBreak THEN breakDuration ELSE workDuration

\* C26: in every state of the timer, 0 <= timeLeft <= D * 60 with D the
\* configured duration of the current mode.
C26_TimeLeftInRange ==
    /\ 0 <= timeLeft
    /\ timeLeft <= CurrentDuration * SecondsPerMinute

\* ------------------------------------------------------------------ C27

\* C27: testRegex comes to an end for every pattern that compiles, the
\* patterns that match the empty text with the flag g included, and leaves
\* a finite list of matches: the page is never left in a loop.
C27_TestRegexTerminates == model # Hung

\* ------------------------------------------------------------------ C28

\* the tasks of the list that are completed
CompletedCount == Len(SelectSeq(model.tasks, LAMBDA task : task.completed))

TreeNodes(m) == renderJsonValue(m.parsedJson, RootPath, <<>>, {}, TRUE)

\* the nodes whose expanded state the step changes
Flipped ==
    {node \in TreeNodes(model) :
        (node.path \in model.expandedNodes) # (node.path \in model'.expandedNodes)}

\* C29: two objects or arrays of the parsed value are never drawn with the
\* same path, so that a click on the toggle of a node changes the expanded
\* state of that node and of no other; a second click on the same toggle
\* restores the set of expanded paths.
C29_PathsUnambiguous ==
    [][JsonToggle =>
          /\ \A a, b \in TreeNodes(model) : a.path = b.path => a.pos = b.pos
          /\ Cardinality(Flipped) = 1
          /\ \E node \in Flipped :
                 (IF node.path \in model'.expandedNodes
                  THEN model'.expandedNodes \ {node.path}
                  ELSE model'.expandedNodes \cup {node.path}) = model.expandedNodes]_vars

\* ------------------------------------------------------------------ C30

\* the ids of the snippets of the list
SnippetIds(m) == {SnippetId(m.snippets[i].id) : i \in 1..Len(m.snippets)}

============================================================================
